---- MODULE Spec2Model ----
(***************************************************************************)
(* Academy back end: exercise submission pipeline and progress ledger.     *)
(*                                                                         *)
(* The database holds the UserProgress rows of one user, the user's        *)
(* UserCourseProgress row for one course, the CourseItem rows of that      *)
(* course, the Course, AcademyVideo and AcademyExercise rows they point    *)
(* to, and the calendar day.  Each request slot runs one HTTP handler      *)
(* (submit, mark_completed, complete_item, start, me, stats); a handler is *)
(* cut into steps at its database accesses, so that requests of the same   *)
(* user can interleave as they do under a multi-worker server.  SpecSeq    *)
(* runs the same steps one request at a time; SpecCourse runs the course   *)
(* handlers while staff edit the course and a management command empties   *)
(* the tables.                                                             *)
(* The specifications of single functions (check_streak,                   *)
(* calculate_progress, execute_code, the heuristic validators) draw the    *)
(* inputs in their initial state and apply the function; `call` holds the  *)
(* inputs and the value returned.                                          *)
(***************************************************************************)
EXTENDS Integers, Sequences, FiniteSets, TLC

VARIABLES ups, ucp, items, tables, today, req, served, call

vars == <<ups, ucp, items, tables, today, req, served, call>>

(***************************************************************************)
(* Bounds of the model.                                                    *)
(***************************************************************************)
NumExercises == 2
NumVideos == 1
NumItems == 2
MaxDay == 1
MaxRequests == 3
MaxTotal == 100
MaxStreak == 4
MaxGap == 4
MaxPolls == 2
MaxCreated == 1
MaxOrder == 3
MaxEdits == 2
MaxTogether == 3
MaxWrites == 1

Reqs == {"r1", "r2"}

Exercises == 1..NumExercises
Videos == 1..NumVideos
Items == 1..NumItems
NoItem == 0
NoDate == -1
NoRow == 0

(***************************************************************************)
(* Content of the catalogue (models.py).                                   *)
(***************************************************************************)
LANGUAGE_CHOICES == <<"python", "javascript", "java", "cpp", "sql", "html", "other">>

DIFFICULTY_CHOICES == <<"easy", "medium", "hard">>

\* exercise.language of the seeded exercises: one language per exercise, in
\* the order of LANGUAGE_CHOICES
ExLanguage(e) == LANGUAGE_CHOICES[((e - 1) % Len(LANGUAGE_CHOICES)) + 1]

\* exercise.difficulty of the seeded exercises
ExDifficulty(e) == DIFFICULTY_CHOICES[((e - 1) % Len(DIFFICULTY_CHOICES)) + 1]

CONTENT_TYPE_CHOICES == {"video", "exercise"}

\* item.content_type of the seeded items of the course
ItemType(i) == IF i % 2 = 1 THEN "video" ELSE "exercise"

\* the null of the foreign keys CourseItem.video and CourseItem.exercise
NoContent == 0

\* a CourseItem row: course is "this" for the course of the requests of the
\* user and "other" for another course; the foreign key the content type
\* names is set to `content`, the other one is null ("only one should be
\* set")
CourseItem(course, order, content_type, content) ==
  [course |-> course, order |-> order, content_type |-> content_type,
   video |-> IF content_type = "video" THEN content ELSE NoContent,
   exercise |-> IF content_type = "exercise" THEN content ELSE NoContent]

\* the video or the exercise the seeded item i shows
ItemContent(i) ==
  IF ItemType(i) = "video" THEN ((i - 1) % NumVideos) + 1 ELSE ((i - 1) % NumExercises) + 1

\* no CourseItem row: the defaults of the fields, no course and no content
\* type yet
NoCourseItem == CourseItem("none", 0, "none", NoContent)

\* the CourseItem rows of the course as seeded, by id: item i has order i
SeededItems == [i \in Items |-> CourseItem("this", i, ItemType(i), ItemContent(i))]

\* the ids of the rows of the course of the requests: course.items
ItemsOf(catalogue) == {j \in DOMAIN catalogue : catalogue[j].course = "this"}

\* the Course row of the requests (course) and the rows of other courses
\* (others), the AcademyVideo rows and the AcademyExercise rows there are,
\* and the number of primary keys the table of UserCourseProgress has given
\* out
SeededTables ==
  [course |-> TRUE, others |-> TRUE, videos |-> Videos, exercises |-> Exercises,
   progress_ids |-> 0]

\* Judge0 language ids; 0 stands for "no entry" (dict.get gives None)
LANGUAGE_IDS(l) ==
  CASE l = "python" -> 71
    [] l = "javascript" -> 63
    [] l = "java" -> 62
    [] l = "cpp" -> 54
    [] l = "c" -> 50
    [] l = "sql" -> 82
    [] l = "html" -> 63
    [] l = "typescript" -> 74
    [] OTHER -> 0

(***************************************************************************)
(* UserProgress.add_xp (models.py).                                        *)
(***************************************************************************)
level_thresholds == <<0, 100, 300, 700, 1500, 3000, 6000, 10000>>

\* the for loop of add_xp from index i on: level becomes the index of every
\* threshold the xp reaches, the last assignment wins
RECURSIVE LevelLoop(_, _, _)
LevelLoop(lvl, xp, i) ==
  IF i > Len(level_thresholds) THEN lvl
  ELSE LevelLoop(IF xp >= level_thresholds[i] THEN i ELSE lvl, xp, i + 1)

\* add_xp on an in-memory UserProgress object (the save is the caller's step)
AddXp(p, points) ==
  [p EXCEPT !.xp = p.xp + points,
            !.total_points = p.total_points + points,
            !.level = LevelLoop(p.level, p.xp + points, 1)]

\* check_streak that also counts a second activity of the same day
CheckStreak_sameDay(p, d) ==
  LET delta == d - p.last_activity_date
      streak == IF p.last_activity_date # NoDate
                THEN (IF delta = 1 \/ delta = 0 THEN p.streak_days + 1
                      ELSE IF delta > 1 THEN 1
                      ELSE p.streak_days)
                ELSE 1
  IN [p EXCEPT !.streak_days = streak, !.last_activity_date = d]

\* UserProgress.check_streak on an in-memory object, on calendar day d
CheckStreak(p, d) ==
  LET delta == d - p.last_activity_date
      streak == IF p.last_activity_date # NoDate
                THEN (IF delta = 1 THEN p.streak_days + 1
                      ELSE IF delta > 1 THEN 1
                      ELSE p.streak_days)
                ELSE 1
  IN [p EXCEPT !.streak_days = streak, !.last_activity_date = d]

\* a freshly created UserProgress row (field defaults)
NewUserProgress ==
  [xp |-> 0, level |-> 1, total_points |-> 0, streak_days |-> 0,
   last_activity_date |-> NoDate,
   completed_videos |-> {}, completed_exercises |-> {}]

\* the place of a UserProgress row that was deleted: its primary key is not
\* given out again, and a save() of an object that still holds it inserts
\* the row anew
DeletedUserProgress == [NewUserProgress EXCEPT !.level = 0]

\* the primary keys of the UserProgress rows there are
LiveRows(rows) == {i \in 1..Len(rows) : rows[i] # DeletedUserProgress}

(***************************************************************************)
(* Executor client (services/judge0_service.py).  Texts are modelled by    *)
(* the classes the code tells apart: "null" (JSON null or missing key),    *)
(* "ws" (white space only), "" and trimmed texts.  A key that a returned   *)
(* dict does not have reads "absent".                                      *)
(***************************************************************************)
max_attempts == 10

Absent == "absent"

\* (x or '').strip()
StripOrEmpty(x) == IF x \in {"null", "ws", ""} THEN "" ELSE x

\* truth value of dict.get(key) on a result: None and '' are falsy
Truthy(x) == x \notin {Absent, "null", ""}

\* raw poll bodies the sandbox can answer with once the run is over
RawResults ==
  { [status_id |-> 3,  stdout |-> "out",  stderr |-> "null", compile_output |-> "null"],
    [status_id |-> 3,  stdout |-> "out",  stderr |-> "null", compile_output |-> "warning: unused"],
    [status_id |-> 5,  stdout |-> "null", stderr |-> "null", compile_output |-> "null"],
    [status_id |-> 6,  stdout |-> "null", stderr |-> "null", compile_output |-> "error: expected ;"],
    [status_id |-> 6,  stdout |-> "null", stderr |-> "null", compile_output |-> "null"],
    [status_id |-> 6,  stdout |-> "null", stderr |-> "error: expected ;", compile_output |-> "ws"],
    [status_id |-> 11, stdout |-> "null", stderr |-> "NameError: x", compile_output |-> "null"],
    [status_id |-> 11, stdout |-> "null", stderr |-> "ReferenceError: document is not defined", compile_output |-> "null"],
    [status_id |-> 11, stdout |-> "out",  stderr |-> "ws",   compile_output |-> "null"],
    [status_id |-> 11, stdout |-> "null", stderr |-> "Segmentation fault", compile_output |-> "warning: unused"] }

\* the early "could not execute" results of execute_code and the timeout
\* result of _wait_for_result: success and error/message only
FailureResult(kind) ==
  [success |-> FALSE, kind |-> kind, status_id |-> 0,
   stdout |-> Absent, stderr |-> Absent, compile_output |-> Absent]

\* Judge0Service._format_result
FormatResult(raw) ==
  [success |-> (raw.status_id = 3),
   kind |-> "result",
   status_id |-> raw.status_id,
   stdout |-> StripOrEmpty(raw.stdout),
   stderr |-> StripOrEmpty(raw.stderr),
   compile_output |-> StripOrEmpty(raw.compile_output)]

\* replies to one poll request: still running (status 1 or 2), a non-200
\* answer, a requests.RequestException, an exception of another class while
\* the body is read (a body that is no JSON object, a null status), or the
\* finished run
PollKinds == {"inprogress", "non200", "reqerror", "raises", "done"}

\* what _wait_for_result hands back: the dict it returns, or the exception
\* it lets through, with the number of GET requests it has issued
Waited(raised, result, gets) == [raised |-> raised, result |-> result, gets |-> gets]

\* _wait_for_result with a loop that allows one attempt more
RECURSIVE WaitForResult_extra(_, _, _)
WaitForResult_extra(polls, raw, attempt) ==
  IF attempt > max_attempts THEN Waited(FALSE, FailureResult("timeout"), attempt)
  ELSE LET reply == IF attempt + 1 <= Len(polls) THEN polls[attempt + 1] ELSE "done"
       IN IF reply = "done" THEN Waited(FALSE, FormatResult(raw), attempt + 1)
          ELSE IF reply = "raises" THEN Waited(TRUE, FailureResult("raised"), attempt + 1)
          ELSE WaitForResult_extra(polls, raw, attempt + 1)

\* Judge0Service._wait_for_result from attempt number `attempt` (0-based):
\* polls[k] is the reply to the k-th poll, "done" once the list is used up
RECURSIVE WaitForResult(_, _, _)
WaitForResult(polls, raw, attempt) ==
  IF attempt >= max_attempts THEN Waited(FALSE, FailureResult("timeout"), attempt)
  ELSE LET reply == IF attempt + 1 <= Len(polls) THEN polls[attempt + 1] ELSE "done"
       IN IF reply = "done" THEN Waited(FALSE, FormatResult(raw), attempt + 1)
          ELSE IF reply = "raises" THEN Waited(TRUE, FailureResult("raised"), attempt + 1)
          ELSE WaitForResult(polls, raw, attempt + 1)

\* outcomes of the POST that creates the submission: a token, the two
\* exceptions caught at the call, another RequestException, a status other
\* than 200/201, a body without token, a body that is no JSON object
SubmitOutcomes ==
  {"token", "timeout", "connection_error", "request_error", "bad_status", "no_token",
   "bad_body"}

\* what execute_code returns, with the HTTP requests it has issued
Executed(result, posts, gets) == [result |-> result, posts |-> posts, gets |-> gets]

\* execute_code that creates the submission before it looks the language up
ExecuteCode_postFirst(language, sb) ==
  IF sb.submit = "timeout" THEN Executed(FailureResult("request_timeout"), 1, 0)
  ELSE IF LANGUAGE_IDS(language) = 0
  THEN Executed(FailureResult("unsupported_language"), 1, 0)
  ELSE LET w == WaitForResult(sb.polls, sb.raw, 0)
       IN Executed(w.result, 1, w.gets)

\* Judge0Service.execute_code (requests is installed: is_available() holds)
ExecuteCode(language, sb) ==
  IF LANGUAGE_IDS(language) = 0 THEN Executed(FailureResult("unsupported_language"), 0, 0)
  ELSE IF sb.submit = "timeout" THEN Executed(FailureResult("request_timeout"), 1, 0)
  ELSE IF sb.submit = "connection_error" THEN Executed(FailureResult("cannot_connect"), 1, 0)
  ELSE IF sb.submit = "request_error" THEN Executed(FailureResult("network_error"), 1, 0)
  ELSE IF sb.submit = "bad_status" THEN Executed(FailureResult("submission_failed"), 1, 0)
  ELSE IF sb.submit = "bad_body" THEN Executed(FailureResult("unexpected_error"), 1, 0)
  ELSE IF sb.submit = "no_token" THEN Executed(FailureResult("no_token"), 1, 0)
  ELSE LET w == WaitForResult(sb.polls, sb.raw, 0)
       IN IF w.raised THEN Executed(FailureResult("unexpected_error"), 1, w.gets)
          ELSE Executed(w.result, 1, w.gets)

\* poll histories tried by the model
PollHistories ==
  { <<>>, <<"inprogress", "non200", "reqerror">>,
    <<"inprogress", "inprogress", "reqerror", "inprogress", "inprogress",
      "inprogress", "inprogress", "non200", "inprogress", "inprogress">> }

\* behaviours of the sandbox during one execute_code call
Sandboxes ==
  { [submit |-> "token", polls |-> <<>>, raw |-> r] : r \in RawResults }
  \cup { [submit |-> "token", polls |-> h, raw |-> CHOOSE r \in RawResults : r.status_id = 5] :
           h \in PollHistories }
  \cup { [submit |-> s, polls |-> <<>>, raw |-> CHOOSE r \in RawResults : r.status_id = 5] :
           s \in SubmitOutcomes \ {"token"} }

(***************************************************************************)
(* Submission orchestrator (views.py,                                      *)
(* AcademyExerciseViewSet._validate_with_ai_and_execution).                *)
(***************************************************************************)
BrowserLanguages == {"javascript", "js", "typescript"}

\* stderr texts that contain one of the browser_apis names
BrowserStderrs == {"ReferenceError: document is not defined"}

BrowserApiIn(stderr) == stderr \in BrowserStderrs

\* what gemini.evaluate_code hands back to the orchestrator, or a local
\* exception while the response is built from it
AiOutcomes ==
  { [raises |-> TRUE,  is_correct |-> FALSE, suggestions |-> "",     reasoning |-> ""],
    [raises |-> FALSE, is_correct |-> TRUE,  suggestions |-> "",     reasoning |-> "text"],
    [raises |-> FALSE, is_correct |-> FALSE, suggestions |-> "text", reasoning |-> "text"],
    [raises |-> FALSE, is_correct |-> FALSE, suggestions |-> "",     reasoning |-> ""] }

\* what _validate_solution_intelligent returns
HeurOutcomes ==
  { [is_correct |-> TRUE,  hint |-> Absent, feedback |-> "text"],
    [is_correct |-> FALSE, hint |-> "text", feedback |-> Absent],
    [is_correct |-> FALSE, hint |-> "text", feedback |-> "text"] }

NoResult == FailureResult("not_run")

Verdict(ok, stage, hint, feedback, res, aiCalled, heurCalled) ==
  [is_correct |-> ok, stage |-> stage, hint |-> hint, feedback |-> feedback,
   res |-> res, ai_called |-> aiCalled, heur_called |-> heurCalled]

\* stages 3 and 4 with a heuristic second opinion on every AI rejection
AiThenHeuristic_secondOpinion(res, aiAvail, ai, heur) ==
  IF aiAvail /\ ~ai.raises /\ ai.is_correct
  THEN Verdict(ai.is_correct, "ai", ai.suggestions, ai.reasoning, res, TRUE, FALSE)
  ELSE Verdict(heur.is_correct, "heuristic", heur.hint, heur.feedback, res, aiAvail, TRUE)

\* stage 3 and 4: AI grader if available and not raising, else the heuristic
AiThenHeuristic(res, aiAvail, ai, heur) ==
  IF aiAvail /\ ~ai.raises
  THEN Verdict(ai.is_correct, "ai", ai.suggestions, ai.reasoning, res, TRUE, FALSE)
  ELSE Verdict(heur.is_correct, "heuristic", heur.hint, heur.feedback, res, aiAvail, TRUE)

\* the value of request.data.get('code', ''): JSON null, or a string given
\* by its length and the length of its strip()
Code(present, len, stripped) == [present |-> present, len |-> len, stripped |-> stripped]

NoCode == Code(FALSE, 0, 0)

\* null, '', six blanks, ' abcd  ', 'abcde', a program of 40 characters
CodeInputs ==
  { NoCode, Code(TRUE, 0, 0), Code(TRUE, 6, 0), Code(TRUE, 7, 4), Code(TRUE, 5, 5),
    Code(TRUE, 40, 40) }

MinCodeLength == 5

\* the preflight test that measures the code as submitted, blanks included
TooShort_untrimmed(code) == ~code.present \/ code.len = 0 \/ code.len < MinCodeLength

\* not submitted_code or len(submitted_code.strip()) < 5
TooShort(code) == ~code.present \/ code.len = 0 \/ code.stripped < MinCodeLength

\* _validate_with_ai_and_execution
ValidateWithAiAndExecution(language, code, sb, aiAvail, ai, heur) ==
  IF TooShort(code)
  THEN Verdict(FALSE, "too_short", "text", "text", NoResult, FALSE, FALSE)
  ELSE
    LET res == ExecuteCode(language, sb).result
        has_compilation_error == ~res.success /\ Truthy(res.compile_output)
        is_stderr_branch == ~res.success /\ ~Truthy(res.compile_output) /\ Truthy(res.stderr)
    IN IF is_stderr_branch /\ language \in BrowserLanguages /\ ~BrowserApiIn(res.stderr)
       THEN Verdict(FALSE, "runtime_error", "text", "text", res, FALSE, FALSE)
       ELSE IF has_compilation_error
       THEN Verdict(FALSE, "compile_error", "text", "text", res, FALSE, FALSE)
       ELSE AiThenHeuristic(res, aiAvail, ai, heur)

(***************************************************************************)
(* Database rows and in-memory model objects.                              *)
(***************************************************************************)
\* the columns of a UserProgress row that Model.save() writes; the two
\* many-to-many sets live in their own tables and are written by add()
Scalars(row) ==
  [xp |-> row.xp, level |-> row.level, total_points |-> row.total_points,
   streak_days |-> row.streak_days, last_activity_date |-> row.last_activity_date]

\* progress.save(): every column is written from the in-memory object
SaveUserProgress(row, mem) ==
  [row EXCEPT !.xp = mem.xp, !.level = mem.level,
              !.total_points = mem.total_points,
              !.streak_days = mem.streak_days,
              !.last_activity_date = mem.last_activity_date]

\* a freshly created UserCourseProgress row (field defaults), the first of
\* its table
NewCourseProgress ==
  [id |-> 1, current_item |-> NoItem, completed_items |-> {}, is_started |-> FALSE,
   is_completed |-> FALSE, completion_percentage |-> 0,
   started_at |-> NoDate, completed_at |-> NoDate]

NoCourseProgress == [NewCourseProgress EXCEPT !.completion_percentage = -1]

\* UserCourseProgress.save(): the columns are written, completed_items is not
SaveCourseProgress(row, cmem) ==
  [cmem EXCEPT !.completed_items = row.completed_items]

\* points_map.get(exercise.difficulty, 20)
PointsMap(difficulty) ==
  CASE difficulty = "easy" -> 20
    [] difficulty = "medium" -> 30
    [] difficulty = "hard" -> 50
    [] OTHER -> 20

VideoPoints == 10

\* xp of a course item by the content type of the loaded object
\* (complete_item)
ItemXp(content_type) == IF content_type = "video" THEN 10 ELSE 50

\* the row of smallest order among the rows `among` of the catalogue, NoItem
\* if there is none: queryset.order_by('order').first()
FirstByOrder(catalogue, among) ==
  IF among = {} THEN NoItem
  ELSE CHOOSE j \in among : \A k \in among : catalogue[j].order <= catalogue[k].order

\* CourseItem.get_next_item on an object loaded with order `order`: the row
\* of smallest order above it
GetNextItem(catalogue, order) ==
  FirstByOrder(catalogue, {j \in ItemsOf(catalogue) : catalogue[j].order > order})

\* course.items.order_by('order').first()
FirstItem(catalogue) == FirstByOrder(catalogue, ItemsOf(catalogue))

(***************************************************************************)
(* int((completed_count / total_items) * 100) in Python: the quotient of   *)
(* two ints is the IEEE-754 double nearest to the exact quotient           *)
(* (round-half-even, 53 significant bits), the product with 100 is rounded *)
(* the same way, and int() drops the fraction.  Significands are sequences *)
(* of binary digits, least significant digit first.                        *)
(***************************************************************************)
MantissaBits == 53

\* the k with t <= c * 2^k < 2t, for c > 0 and t > 0: negative if c >= 2t
RECURSIVE NormShift(_, _, _)
NormShift(c, t, k) ==
  IF c < t THEN NormShift(2 * c, t, k + 1)
  ELSE IF c >= 2 * t THEN NormShift(c, 2 * t, k - 1)
  ELSE k

\* long division of r by t for t <= r < 2t: the first n digits of the
\* quotient, then a sticky digit that tells whether a remainder is left.
\* After j digits the remainder is (r * 2^j) mod t.
DivBits(r, t, n) ==
  LET pow(j) == IF j <= 27 THEN (2 ^ j) % t
                ELSE (((2 ^ 27) % t) * ((2 ^ (j - 27)) % t)) % t
      rem(j) == ((r % t) * pow(j)) % t
      bit(j) == IF j = 0 THEN (IF r >= t THEN 1 ELSE 0)
                ELSE (IF 2 * rem(j - 1) >= t THEN 1 ELSE 0)
  IN [i \in 1..(n + 1) |-> IF i = 1 THEN (IF rem(n - 1) # 0 THEN 1 ELSE 0)
                           ELSE bit(n + 1 - i)]

\* the number a digit sequence stands for, from digit i on
RECURSIVE BitsValue(_, _)
BitsValue(bits, i) ==
  IF i > Len(bits) THEN 0 ELSE bits[i] + 2 * BitsValue(bits, i + 1)

\* the digits of bits * k + carry, computed on limbs of 8 digits
MulBits(bits, k, carry) ==
  LET n == (Len(bits) + 7) \div 8
      at(i) == IF i > Len(bits) THEN 0 ELSE bits[i]
      limb(l) == at(8 * l - 7) + 2 * at(8 * l - 6) + 4 * at(8 * l - 5) + 8 * at(8 * l - 4)
                   + 16 * at(8 * l - 3) + 32 * at(8 * l - 2) + 64 * at(8 * l - 1)
                   + 128 * at(8 * l)
      \* the limbs of the result from limb l on, c carried over from below
      RECURSIVE sum(_, _)
      sum(l, c) == IF l > n THEN <<c>>
                   ELSE <<(limb(l) * k + c) % 256>> \o sum(l + 1, (limb(l) * k + c) \div 256)
      sums == sum(1, carry)
      digit(i) == (sums[(i + 7) \div 8] \div (2 ^ ((i - 1) % 8))) % 2
      ones == {i \in 1..(8 * n + 8) : digit(i) = 1}
      len == IF \E i \in ones : i > Len(bits)
             THEN CHOOSE i \in ones : \A j \in ones : j <= i
             ELSE Len(bits)
  IN SubSeq([i \in 1..(8 * n + 8) |-> digit(i)], 1, len)

\* the lowest `drop` digits rounded away, to nearest, ties to even
RoundBits(bits, drop) ==
  LET kept == SubSeq(bits, drop + 1, Len(bits))
      half == bits[drop] = 1
      sticky == \E i \in 1..(drop - 1) : bits[i] = 1
  IN IF half /\ (sticky \/ kept[1] = 1) THEN MulBits(kept, 1, 1) ELSE kept

\* int((c / t) * 100) for c >= 0, t > 0
FloatPercent(c, t) ==
  IF c = 0 THEN 0
  ELSE LET k == NormShift(c, t, 0)
           numerator == IF k > 0 THEN c * (2 ^ k) ELSE c
           denominator == IF k < 0 THEN t * (2 ^ (0 - k)) ELSE t
           \* c / t = quotient * 2^-(52 + k)
           quotient == RoundBits(DivBits(numerator, denominator, MantissaBits + 1), 2)
           product == MulBits(quotient, 100, 0)
           drop == Len(product) - MantissaBits
           \* (c / t) * 100 = rounded * 2^-(52 + k - drop)
           rounded == RoundBits(product, drop)
           fraction == (MantissaBits - 1) + k - drop
       IN IF fraction >= Len(rounded) THEN 0
          ELSE BitsValue(SubSeq(rounded, fraction + 1, Len(rounded)), 1)

\* the arithmetic of UserCourseProgress.calculate_progress on an in-memory
\* object: int((completed_count / total_items) * 100), then the auto-complete
CalculateProgress(cmem, completedCount, totalItems, now) ==
  IF totalItems = 0 THEN [cmem EXCEPT !.completion_percentage = 0]
  ELSE LET pct == FloatPercent(completedCount, totalItems)
       IN IF pct = 100 /\ ~cmem.is_completed
          THEN [cmem EXCEPT !.completion_percentage = pct,
                            !.is_completed = TRUE, !.completed_at = now]
          ELSE [cmem EXCEPT !.completion_percentage = pct]

(***************************************************************************)
(* Requests.                                                               *)
(***************************************************************************)
NoPoints == -1

NoVerdict == Verdict(FALSE, "none", Absent, Absent, NoResult, FALSE, FALSE)

\* an HTTP response; success is "true", "false" or Absent; a key the
\* response does not carry reads Absent, NoPoints, or FALSE for the two flags
Response(status, message, success, points, total, hint, feedback, already, incorrect) ==
  [status |-> status, message |-> message, success |-> success,
   points |-> points, total_points |-> total, hint |-> hint,
   feedback |-> feedback, already_completed |-> already,
   current_answer_incorrect |-> incorrect]

NoResponse == Response(0, "none", Absent, NoPoints, NoPoints, Absent, Absent, FALSE, FALSE)

ErrorResponse(status, message) ==
  Response(status, message, Absent, NoPoints, NoPoints, Absent, Absent, FALSE, FALSE)

IdleReq ==
  [pc |-> "idle", op |-> "none", target |-> 0, row |-> NoRow,
   mem |-> Scalars(NewUserProgress), already |-> FALSE, code |-> NoCode,
   verdict |-> NoVerdict,
   item |-> NoCourseItem, prefetched |-> 0, created |-> FALSE, total |-> 0,
   cmem |-> NoCourseProgress, resp |-> NoResponse]

\* a request that has answered: only the operation, its target and the
\* response remain
Done(q, resp) == [IdleReq EXCEPT !.pc = "done", !.op = q.op, !.target = q.target, !.resp = resp]

\* no function is under test: the value of `call` in the request specifications
NoCall == [fn |-> "none"]

Init ==
  /\ ups = <<>>
  /\ ucp = NoCourseProgress
  /\ items = SeededItems
  /\ tables = SeededTables
  /\ today = 0
  /\ req = [r \in Reqs |-> IdleReq]
  /\ served = 0
  /\ call = NoCall

\* the request arrives: DRF checks authentication and get_object looks the
\* object up (the exercise, the video, the course).  submit, mark_completed,
\* complete_item and start act on one exercise, video or course; me and
\* stats on the user.  The queryset of CourseViewSet prefetches the items of
\* the course: the course object of complete_item holds the rows there are
\* at this moment.  Without the object get_object answers 404.  The item_id
\* of a complete_item request may be missing, the id of a row, or an id no
\* row has (yet)
Start(r, ops) ==
  /\ req[r].pc = "idle"
  /\ served < MaxRequests
  /\ served' = served + 1
  /\ \E op \in ops, auth \in BOOLEAN :
       \E t \in (CASE op = "submit" -> Exercises
                   [] op = "mark_completed" -> Videos
                   [] op = "complete_item" -> {NoItem} \cup 1..(NumItems + MaxCreated)
                   [] OTHER -> {0}) :
         req' = [req EXCEPT ![r] =
                   IF ~auth THEN Done([op |-> op, target |-> t], ErrorResponse(401, "unauthorized"))
                   ELSE IF \/ op = "submit" /\ t \notin tables.exercises
                           \/ op = "mark_completed" /\ t \notin tables.videos
                           \/ op \in {"complete_item", "start"} /\ ~tables.course
                   THEN Done([op |-> op, target |-> t], ErrorResponse(404, "Not found"))
                   ELSE IF op = "complete_item"
                   THEN [IdleReq EXCEPT !.pc = "ci_item", !.op = op, !.target = t,
                                        !.prefetched = Cardinality(ItemsOf(items))]
                   ELSE IF op = "start"
                   THEN [IdleReq EXCEPT !.pc = "st_getcp", !.op = op, !.target = t]
                   ELSE [IdleReq EXCEPT !.pc = "getup", !.op = op, !.target = t]]
  /\ UNCHANGED <<ups, ucp, today, call, items, tables>>

\* where a handler continues once it holds its UserProgress object
AfterGet(op) ==
  CASE op = "submit" -> "sub_check"
    [] op = "mark_completed" -> "mc_check"
    [] op = "complete_item" -> "ci_addxp"
    [] OTHER -> "pr_answer"

\* UserProgress.objects.get_or_create(user=...), the get: one row is loaded,
\* no row leads to the create, several rows raise MultipleObjectsReturned
GetUserProgress(r) ==
  /\ req[r].pc = "getup"
  /\ req' = [req EXCEPT ![r] =
               IF LiveRows(ups) = {} THEN [@ EXCEPT !.pc = "createup"]
               ELSE IF Cardinality(LiveRows(ups)) = 1
               THEN LET row == CHOOSE i \in LiveRows(ups) : TRUE
                    IN [@ EXCEPT !.pc = AfterGet(req[r].op), !.row = row,
                                 !.mem = Scalars(ups[row])]
               ELSE Done(@, ErrorResponse(500, "MultipleObjectsReturned"))]
  /\ UNCHANGED <<ups, ucp, today, served, call, items, tables>>

\* get_or_create, the create after the get found nothing
CreateUserProgress(r) ==
  /\ req[r].pc = "createup"
  /\ ups' = Append(ups, NewUserProgress)
  /\ req' = [req EXCEPT ![r] = [@ EXCEPT !.pc = AfterGet(req[r].op), !.row = Len(ups) + 1,
                                         !.mem = Scalars(NewUserProgress)]]
  /\ UNCHANGED <<ucp, today, served, call, items, tables>>

(***************************************************************************)
(* AcademyExerciseViewSet.submit (views.py).                               *)
(***************************************************************************)
\* submit that never finds the exercise among the completed ones
SubmitCheck_never(r) ==
  /\ req[r].pc = "sub_check"
  /\ req' = [req EXCEPT ![r] = [@ EXCEPT !.pc = "sub_validate", !.already = FALSE]]
  /\ UNCHANGED <<ups, ucp, today, served, call, items, tables>>

\* is_already_completed = exercise in progress.completed_exercises.all()
SubmitCheck(r) ==
  /\ req[r].pc = "sub_check"
  /\ req' = [req EXCEPT ![r] =
               [@ EXCEPT !.pc = "sub_validate",
                         !.already = (req[r].target \in ups[req[r].row].completed_exercises)]]
  /\ UNCHANGED <<ups, ucp, today, served, call, items, tables>>

\* validation_result = self._validate_with_ai_and_execution(exercise, code):
\* the code, the sandbox, the oracle and the validator are the inputs
SubmitValidate(r, env) ==
  /\ req[r].pc = "sub_validate"
  /\ \E code \in env.codes, sb \in env.sandboxes, aiAvail \in env.aiAvail,
        ai \in env.ai, heur \in env.heur :
       req' = [req EXCEPT ![r] =
                 [@ EXCEPT !.pc = "sub_judged",
                           !.code = code,
                           !.verdict = ValidateWithAiAndExecution(
                                         ExLanguage(req[r].target), code, sb, aiAvail, ai, heur)]]
  /\ UNCHANGED <<ups, ucp, today, served, call, items, tables>>

\* validation_result.get(key, default)
GetOr(value, default) == IF value = Absent THEN default ELSE value

\* the response of submit for an exercise that was already completed
AlreadyCompletedResponse(q) ==
  IF q.verdict.is_correct
  THEN Response(200, "already_completed_correct", "true", 0, q.mem.total_points,
                Absent, "text", TRUE, FALSE)
  ELSE Response(200, "already_completed_incorrect", "true", 0, q.mem.total_points,
                GetOr(q.verdict.hint, ""), "text", TRUE, TRUE)

\* a first-time incorrect answer reported as a success, without its hint
IncorrectResponse_success(q) ==
  Response(200, "incorrect", "true", NoPoints, NoPoints,
           Absent, Absent, FALSE, FALSE)

\* the response of submit for a first-time incorrect answer
IncorrectResponse(q) ==
  Response(200, "incorrect", "false", NoPoints, NoPoints,
           GetOr(q.verdict.hint, "text"), GetOr(q.verdict.feedback, ""), FALSE, FALSE)

\* submit that takes a completed exercise out of the completed set when the
\* new answer is incorrect
SubmitDecide_revoke(r) ==
  /\ req[r].pc = "sub_judged"
  /\ req' = [req EXCEPT ![r] =
               IF @.already THEN Done(@, AlreadyCompletedResponse(@))
               ELSE IF @.verdict.is_correct
               THEN [@ EXCEPT !.pc = "sub_add", !.code = NoCode,
                              !.verdict = Verdict(TRUE, "accepted", Absent,
                                                  GetOr(req[r].verdict.feedback, ""),
                                                  NoResult, FALSE, FALSE)]
               ELSE Done(@, IncorrectResponse(@))]
  /\ ups' = IF req[r].already /\ ~req[r].verdict.is_correct
            THEN [ups EXCEPT ![req[r].row].completed_exercises = @ \ {req[r].target}]
            ELSE ups
  /\ UNCHANGED <<ucp, today, served, call, items, tables>>

\* the branches of submit after the validation: answer at once, or go on to
\* record the first correct answer
SubmitDecide(r) ==
  /\ req[r].pc = "sub_judged"
  /\ req' = [req EXCEPT ![r] =
               IF @.already THEN Done(@, AlreadyCompletedResponse(@))
               ELSE IF @.verdict.is_correct
               THEN [@ EXCEPT !.pc = "sub_add", !.code = NoCode,
                              !.verdict = Verdict(TRUE, "accepted", Absent,
                                                  GetOr(req[r].verdict.feedback, ""),
                                                  NoResult, FALSE, FALSE)]
               ELSE Done(@, IncorrectResponse(@))]
  /\ UNCHANGED <<ups, ucp, today, served, call, items, tables>>

\* progress.completed_exercises.add(exercise)
SubmitAdd(r) ==
  /\ req[r].pc = "sub_add"
  /\ ups' = [ups EXCEPT ![req[r].row].completed_exercises = @ \cup {req[r].target}]
  /\ req' = [req EXCEPT ![r].pc = "sub_save"]
  /\ UNCHANGED <<ucp, today, served, call, items, tables>>

\* the in-memory object of submit after progress.total_points += points
SubmitAward(mem, e) ==
  [mem EXCEPT !.total_points = mem.total_points + PointsMap(ExDifficulty(e))]

\* progress.total_points += points; progress.save(); the response
SubmitSave(r) ==
  /\ req[r].pc = "sub_save"
  /\ LET q == req[r]
         mem == SubmitAward(q.mem, q.target)
     IN /\ ups' = [ups EXCEPT ![q.row] = SaveUserProgress(@, mem)]
        /\ req' = [req EXCEPT ![r] =
                     Done(q, Response(200, "correct", "true",
                                      PointsMap(ExDifficulty(q.target)), mem.total_points,
                                      Absent, q.verdict.feedback, FALSE, FALSE))]
  /\ UNCHANGED <<ucp, today, served, call, items, tables>>

(***************************************************************************)
(* AcademyVideoViewSet.mark_completed (views.py).                          *)
(***************************************************************************)
\* if video not in progress.completed_videos.all(): ... else the answer
MarkCheck(r) ==
  /\ req[r].pc = "mc_check"
  /\ req' = [req EXCEPT ![r] =
               IF @.target \notin ups[@.row].completed_videos
               THEN [@ EXCEPT !.pc = "mc_add"]
               ELSE Done(@, Response(200, "Video already completed", Absent, NoPoints,
                                     NoPoints, Absent, Absent, FALSE, FALSE))]
  /\ UNCHANGED <<ups, ucp, today, served, call, items, tables>>

\* progress.completed_videos.add(video)
MarkAdd(r) ==
  /\ req[r].pc = "mc_add"
  /\ ups' = [ups EXCEPT ![req[r].row].completed_videos = @ \cup {req[r].target}]
  /\ req' = [req EXCEPT ![r].pc = "mc_save"]
  /\ UNCHANGED <<ucp, today, served, call, items, tables>>

\* the in-memory object of mark_completed after progress.total_points += 10
MarkAward(mem) == [mem EXCEPT !.total_points = mem.total_points + VideoPoints]

\* progress.total_points += 10; progress.save(); the response carries the
\* new total under the key 'points'
MarkSave(r) ==
  /\ req[r].pc = "mc_save"
  /\ LET q == req[r]
         mem == MarkAward(q.mem)
     IN /\ ups' = [ups EXCEPT ![q.row] = SaveUserProgress(@, mem)]
        /\ req' = [req EXCEPT ![r] =
                     Done(q, Response(200, "Video marked as completed", Absent,
                                      mem.total_points, NoPoints, Absent, Absent,
                                      FALSE, FALSE))]
  /\ UNCHANGED <<ucp, today, served, call, items, tables>>

(***************************************************************************)
(* CourseViewSet.complete_item (views.py).                                 *)
(***************************************************************************)
\* the columns of the stored UserCourseProgress row as an in-memory object
\* (completed_items is read from its own table when it is needed)
LoadCourseProgress(row) == [row EXCEPT !.completed_items = {}]

\* the row UserCourseProgress.objects.create inserts: the defaults under the
\* next primary key of the table `db`
CreateCourseProgress(db) == [NewCourseProgress EXCEPT !.id = db.progress_ids + 1]

\* progress.save() issues an UPDATE of every column; a current_item that
\* names a row deleted in the meantime violates its foreign key
ForeignKeyHolds(catalogue, cmem) == cmem.current_item \in DOMAIN catalogue \cup {NoItem}

\* the stored row is the row of the object in memory
OwnRow(row, cmem) == row # NoCourseProgress /\ row.id = cmem.id

\* progress.completed_items of an object in memory: the rows of its primary
\* key in the table of completed_items (none once its row is deleted)
CompletedItems(row, cmem) == IF OwnRow(row, cmem) THEN row.completed_items ELSE {}

\* progress.save(): the UPDATE of the row of the object; if that row is
\* gone the UPDATE matches nothing and save() INSERTs the row anew, which
\* (user, course) being unique allows only while no other row was created.
\* The foreign keys to the course and to current_item must hold
\* (IntegrityError)
CanSave(cmem) ==
  /\ tables.course
  /\ ucp = NoCourseProgress \/ ucp.id = cmem.id
  /\ ForeignKeyHolds(items, cmem)

\* the answer that serialises a progress object
ProgressResponse(message, cmem) ==
  Response(200, message, Absent, cmem.completion_percentage, NoPoints,
           Absent, Absent, cmem.is_completed, FALSE)

\* item_id = request.data.get('item_id'), 400 without it;
\* CourseItem.objects.get(id=item_id, course=course), 404 without such a row
CourseItemLookup(r) ==
  /\ req[r].pc = "ci_item"
  /\ LET q == req[r]
     IN req' = [req EXCEPT ![r] =
                  IF q.target = NoItem THEN Done(q, ErrorResponse(400, "item_id required"))
                  ELSE IF q.target \notin ItemsOf(items)
                  THEN Done(q, ErrorResponse(404, "Item not found"))
                  ELSE [q EXCEPT !.pc = "ci_getcp", !.item = items[q.target]]]
  /\ UNCHANGED <<ups, ucp, today, served, call, items, tables>>

\* UserCourseProgress.objects.get_or_create(user, course); a created object
\* holds the course object of the request and gets is_started and
\* started_at in memory; a loaded one holds the id of its course only.
\* The pair (user, course) is
\* unique in the table: of two concurrent creations one fails and its
\* get_or_create reads the row of the other, which is what this step does
\* when it is taken second.  The create for a course deleted in the
\* meantime violates the foreign key of the row.
CourseGetProgress(r) ==
  /\ req[r].pc = "ci_getcp"
  /\ IF ~tables.course
     THEN /\ ucp' = ucp
          /\ req' = [req EXCEPT ![r] = Done(@, ErrorResponse(500, "IntegrityError"))]
     ELSE IF ucp = NoCourseProgress
     THEN /\ ucp' = CreateCourseProgress(tables)
          /\ req' = [req EXCEPT ![r] =
                       [@ EXCEPT !.pc = "ci_check", !.created = TRUE,
                                 !.cmem = [CreateCourseProgress(tables) EXCEPT
                                             !.is_started = TRUE, !.started_at = today]]]
     ELSE /\ ucp' = ucp
          /\ req' = [req EXCEPT ![r] =
                       [@ EXCEPT !.pc = "ci_check", !.cmem = LoadCourseProgress(ucp)]]
  /\ tables' = IF tables.course /\ ucp = NoCourseProgress
               THEN [tables EXCEPT !.progress_ids = @ + 1] ELSE tables
  /\ UNCHANGED <<ups, today, served, call, items>>

\* complete_item that takes every item for a new one
CourseCheck_always(r) ==
  /\ req[r].pc = "ci_check"
  /\ req' = [req EXCEPT ![r].pc = "ci_add"]
  /\ UNCHANGED <<ups, ucp, today, served, call, items, tables>>

\* if item not in progress.completed_items.all()
CourseCheck(r) ==
  /\ req[r].pc = "ci_check"
  /\ req' = [req EXCEPT ![r].pc =
               IF req[r].target \notin CompletedItems(ucp, req[r].cmem)
               THEN "ci_add" ELSE "ci_total"]
  /\ UNCHANGED <<ups, ucp, today, served, call, items, tables>>

\* progress.completed_items.add(item); the row of an item deleted in the
\* meantime cannot be referenced, nor can a progress row deleted in the
\* meantime (IntegrityError); an item moved to another course can
CourseAdd(r) ==
  /\ req[r].pc = "ci_add"
  /\ IF req[r].target \in DOMAIN items /\ OwnRow(ucp, req[r].cmem)
     THEN /\ ucp' = [ucp EXCEPT !.completed_items = @ \cup {req[r].target}]
          /\ req' = [req EXCEPT ![r].pc = "getup"]
     ELSE /\ ucp' = ucp
          /\ req' = [req EXCEPT ![r] = Done(@, ErrorResponse(500, "IntegrityError"))]
  /\ UNCHANGED <<ups, today, served, call, items, tables>>

\* user_progress.add_xp(xp), which saves
CourseAddXp(r) ==
  /\ req[r].pc = "ci_addxp"
  /\ LET q == req[r]
         mem == AddXp(q.mem, ItemXp(q.item.content_type))
     IN /\ ups' = [ups EXCEPT ![q.row] = SaveUserProgress(@, mem)]
        /\ req' = [req EXCEPT ![r] = [@ EXCEPT !.pc = "ci_streak", !.mem = mem]]
  /\ UNCHANGED <<ucp, today, served, call, items, tables>>

\* user_progress.check_streak(), which saves
CourseCheckStreak(r) ==
  /\ req[r].pc = "ci_streak"
  /\ LET q == req[r]
         mem == CheckStreak(q.mem, today)
     IN /\ ups' = [ups EXCEPT ![q.row] = SaveUserProgress(@, mem)]
        /\ req' = [req EXCEPT ![r] = [@ EXCEPT !.pc = "ci_total", !.mem = Scalars(NewUserProgress)]]
  /\ UNCHANGED <<ucp, today, served, call, items, tables>>

\* calculate_progress once total_items is known: a course without items gets
\* 0 percent and goes on to the save, any other goes on to count the
\* completed items
AfterTotal(q, total_items, now) ==
  IF total_items = 0
  THEN [q EXCEPT !.pc = "ci_save", !.prefetched = 0, !.created = FALSE,
                 !.cmem = CalculateProgress(q.cmem, 0, total_items, now)]
  ELSE [q EXCEPT !.pc = "ci_count", !.prefetched = 0, !.created = FALSE,
                 !.total = total_items]

\* progress.calculate_progress(), total_items = self.course.get_total_items():
\* self.course.  On a created progress object it is the course object of the
\* request, and get_total_items, which is self.items.count(), answers with
\* the number of its prefetched items.  On a loaded one the course is fetched
\* now (Course.DoesNotExist if it was deleted in the meantime) and its items
\* are counted by the query that follows
CourseTotal(r) ==
  /\ req[r].pc = "ci_total"
  /\ LET q == req[r]
     IN req' = [req EXCEPT ![r] =
                  IF q.created THEN AfterTotal(q, q.prefetched, today)
                  ELSE IF ~tables.course THEN Done(q, ErrorResponse(500, "DoesNotExist"))
                  ELSE [q EXCEPT !.pc = "ci_items"]]
  /\ UNCHANGED <<ups, ucp, today, served, call, items, tables>>

\* get_total_items on the course that was fetched: self.items.count(), the
\* rows of the course there are now
CourseTotalCount(r) ==
  /\ req[r].pc = "ci_items"
  /\ req' = [req EXCEPT ![r] = AfterTotal(@, Cardinality(ItemsOf(items)), today)]
  /\ UNCHANGED <<ups, ucp, today, served, call, items, tables>>

\* calculate_progress, completed_count = self.completed_items.count() and the
\* arithmetic on the object in memory
CourseCount(r) ==
  /\ req[r].pc = "ci_count"
  /\ LET q == req[r]
         cmem == CalculateProgress(q.cmem, Cardinality(CompletedItems(ucp, q.cmem)),
                                   q.total, today)
     IN req' = [req EXCEPT ![r] = [@ EXCEPT !.pc = "ci_save", !.cmem = cmem, !.total = 0]]
  /\ UNCHANGED <<ups, ucp, today, served, call, items, tables>>

\* calculate_progress, self.save()
CourseSave(r) ==
  /\ req[r].pc = "ci_save"
  /\ IF CanSave(req[r].cmem)
     THEN /\ ucp' = SaveCourseProgress(ucp, req[r].cmem)
          /\ req' = [req EXCEPT ![r].pc = "ci_next"]
     ELSE /\ ucp' = ucp
          /\ req' = [req EXCEPT ![r] = Done(@, ErrorResponse(500, "IntegrityError"))]
  /\ UNCHANGED <<ups, today, served, call, items, tables>>

\* next_item = item.get_next_item(), on the item as it was loaded:
\* self.course, which the item fetches now (Course.DoesNotExist if the
\* course was deleted in the meantime)
CourseNext(r) ==
  /\ req[r].pc = "ci_next"
  /\ req' = [req EXCEPT ![r] =
               IF ~tables.course THEN Done(@, ErrorResponse(500, "DoesNotExist"))
               ELSE [@ EXCEPT !.pc = "ci_nextitem"]]
  /\ UNCHANGED <<ups, ucp, today, served, call, items, tables>>

\* get_next_item, the query: the row of smallest order among the rows of
\* the course above item.order; without a next item the answer says the
\* course is completed
CourseNextItem(r) ==
  /\ req[r].pc = "ci_nextitem"
  /\ LET q == req[r]
         next_item == GetNextItem(items, q.item.order)
     IN req' = [req EXCEPT ![r] =
                  IF next_item # NoItem
                  THEN [@ EXCEPT !.pc = "ci_savenext", !.cmem.current_item = next_item]
                  ELSE Done(q, Response(200, "Cours complete", Absent, 100, NoPoints,
                                        Absent, Absent, TRUE, FALSE))]
  /\ UNCHANGED <<ups, ucp, today, served, call, items, tables>>

\* progress.current_item = next_item; progress.save() and the answer
CourseSaveNext(r) ==
  /\ req[r].pc = "ci_savenext"
  /\ IF CanSave(req[r].cmem)
     THEN /\ ucp' = SaveCourseProgress(ucp, req[r].cmem)
          /\ req' = [req EXCEPT ![r] = Done(@, ProgressResponse("Item completed!", req[r].cmem))]
     ELSE /\ ucp' = ucp
          /\ req' = [req EXCEPT ![r] = Done(@, ErrorResponse(500, "IntegrityError"))]
  /\ UNCHANGED <<ups, today, served, call, items, tables>>

(***************************************************************************)
(* CourseViewSet.start (views.py).                                         *)
(***************************************************************************)
\* get_or_create as in complete_item; `if created or not progress.is_started`
\* sets is_started and started_at in memory, otherwise the row is answered
\* as it is
StartGetProgress(r) ==
  /\ req[r].pc = "st_getcp"
  /\ IF ~tables.course
     THEN /\ ucp' = ucp
          /\ req' = [req EXCEPT ![r] = Done(@, ErrorResponse(500, "IntegrityError"))]
     ELSE IF ucp = NoCourseProgress
     THEN /\ ucp' = CreateCourseProgress(tables)
          /\ req' = [req EXCEPT ![r] =
                       [@ EXCEPT !.pc = "st_first",
                                 !.cmem = [CreateCourseProgress(tables) EXCEPT
                                             !.is_started = TRUE, !.started_at = today]]]
     ELSE /\ ucp' = ucp
          /\ req' = [req EXCEPT ![r] =
                       IF ~ucp.is_started
                       THEN [@ EXCEPT !.pc = "st_first",
                                      !.cmem = [LoadCourseProgress(ucp) EXCEPT
                                                  !.is_started = TRUE, !.started_at = today]]
                       ELSE Done(@, ProgressResponse("started", LoadCourseProgress(ucp)))]
  /\ tables' = IF tables.course /\ ucp = NoCourseProgress
               THEN [tables EXCEPT !.progress_ids = @ + 1] ELSE tables
  /\ UNCHANGED <<ups, today, served, call, items>>

\* first_item = course.items.order_by('order').first(); if first_item:
\* progress.current_item = first_item
StartFirst(r) ==
  /\ req[r].pc = "st_first"
  /\ LET first_item == FirstItem(items)
     IN req' = [req EXCEPT ![r] =
                  [@ EXCEPT !.pc = "st_save",
                            !.cmem.current_item = IF first_item # NoItem THEN first_item ELSE @]]
  /\ UNCHANGED <<ups, ucp, today, served, call, items, tables>>

\* progress.save() and the answer
StartSave(r) ==
  /\ req[r].pc = "st_save"
  /\ IF CanSave(req[r].cmem)
     THEN /\ ucp' = SaveCourseProgress(ucp, req[r].cmem)
          /\ req' = [req EXCEPT ![r] = Done(@, ProgressResponse("started", req[r].cmem))]
     ELSE /\ ucp' = ucp
          /\ req' = [req EXCEPT ![r] = Done(@, ErrorResponse(500, "IntegrityError"))]
  /\ UNCHANGED <<ups, today, served, call, items, tables>>

(***************************************************************************)
(* UserProgressViewSet.me and UserProgressViewSet.stats (views.py).        *)
(***************************************************************************)
\* the answer built from the object get_or_create handed over (the counts
\* of completed videos and exercises it also reports are not modelled)
ProgressAnswer(r) ==
  /\ req[r].pc = "pr_answer"
  /\ req' = [req EXCEPT ![r] =
               Done(@, Response(200, req[r].op, Absent, NoPoints, req[r].mem.total_points,
                                Absent, Absent, FALSE, FALSE))]
  /\ UNCHANGED <<ups, ucp, today, served, call, items, tables>>

(***************************************************************************)
(* Environment and specifications.                                         *)
(***************************************************************************)
\* the response has been sent; the worker is free again
Finish(r) ==
  /\ req[r].pc = "done"
  /\ req' = [req EXCEPT ![r] = IdleReq]
  /\ UNCHANGED <<ups, ucp, today, served, call, items, tables>>

\* midnight passes
Tick ==
  /\ today < MaxDay
  /\ today' = today + 1
  /\ UNCHANGED <<ups, ucp, req, served, call, items, tables>>

\* every behaviour of the code under submission, the sandbox, the oracle
\* and the validators
AnyEnv ==
  [codes |-> CodeInputs, sandboxes |-> Sandboxes, aiAvail |-> BOOLEAN,
   ai |-> AiOutcomes, heur |-> HeurOutcomes]

\* a well-formed submission, a sandbox that runs it, no oracle credential:
\* the validator accepts or rejects
NominalEnv ==
  [codes |-> {c \in CodeInputs : c.stripped > MinCodeLength},
   sandboxes |-> {sb \in Sandboxes : sb.submit = "token" /\ sb.polls = <<>> /\ sb.raw.status_id = 3
                                      /\ sb.raw.compile_output = "null"},
   aiAvail |-> {FALSE},
   ai |-> {a \in AiOutcomes : a.raises},
   heur |-> {h \in HeurOutcomes : h.feedback = "text"}]

Step(r, env) ==
  \/ Start(r, {"submit", "mark_completed", "complete_item", "start", "me", "stats"})
  \/ GetUserProgress(r)
  \/ CreateUserProgress(r)
  \/ SubmitCheck(r)
  \/ SubmitValidate(r, env)
  \/ SubmitDecide(r)
  \/ SubmitAdd(r)
  \/ SubmitSave(r)
  \/ MarkCheck(r)
  \/ MarkAdd(r)
  \/ MarkSave(r)
  \/ CourseItemLookup(r)
  \/ CourseGetProgress(r)
  \/ CourseCheck(r)
  \/ CourseAdd(r)
  \/ CourseAddXp(r)
  \/ CourseCheckStreak(r)
  \/ CourseTotal(r)
  \/ CourseTotalCount(r)
  \/ CourseCount(r)
  \/ CourseSave(r)
  \/ CourseNext(r)
  \/ CourseNextItem(r)
  \/ CourseSaveNext(r)
  \/ StartGetProgress(r)
  \/ StartFirst(r)
  \/ StartSave(r)
  \/ ProgressAnswer(r)
  \/ Finish(r)

\* requests of the same user served by concurrent workers, in the nominal
\* environment
Next ==
  \/ \E r \in Reqs : Step(r, NominalEnv)
  \/ Tick

Spec == Init /\ [][Next]_vars

\* requests processed one at a time, by a single worker, in any environment
NextSeq ==
  \/ Step("r1", AnyEnv)
  \/ Tick

SpecSeq == Init /\ [][NextSeq]_vars

\* the variables of the request handlers at rest
Quiet ==
  /\ ucp = NoCourseProgress
  /\ items = SeededItems
  /\ tables = SeededTables
  /\ req = [r \in Reqs |-> IdleReq]
  /\ served = 0

(***************************************************************************)
(* calculate_progress alone: a course of `total` items of which            *)
(* `completed` are in the completed_items of the stored row; the request   *)
(* holds the loaded object and is about to call it.                        *)
(***************************************************************************)
InitPct ==
  /\ ups = <<>>
  /\ today = 0
  /\ served = 0
  /\ call \in {[fn |-> "calculate_progress", total |-> t, completed |-> c] :
                t \in 0..MaxTotal, c \in 0..MaxTotal}
  /\ call.completed <= call.total
  /\ items = [i \in 1..call.total |-> CourseItem("this", i, ItemType(i), ItemContent(i))]
  /\ tables = [SeededTables EXCEPT !.progress_ids = 1]
  /\ ucp = [NewCourseProgress EXCEPT !.completed_items = 1..call.completed]
  /\ req = [r \in Reqs |->
              IF r = "r1"
              THEN [IdleReq EXCEPT !.pc = "ci_total", !.op = "complete_item",
                                   !.cmem = LoadCourseProgress(ucp)]
              ELSE IdleReq]

\* progress.calculate_progress() on the object loaded from the stored row,
\* statement by statement: the course, the count of its items, the count of
\* the completed items with the arithmetic, self.save()
NextPct ==
  \/ CourseTotal("r1")
  \/ CourseTotalCount("r1")
  \/ CourseCount("r1")
  \/ CourseSave("r1")

SpecPct == InitPct /\ [][NextPct]_vars

(***************************************************************************)
(* check_streak alone: one row, calls on days that pass.  `call` keeps the *)
(* row as it was before the last call and the day of that call.            *)
(***************************************************************************)
InitStreak ==
  /\ Quiet
  /\ today \in 0..MaxGap
  /\ ups \in {<<[NewUserProgress EXCEPT !.streak_days = n, !.last_activity_date = l]>> :
                n \in 0..MaxStreak, l \in {NoDate} \cup 0..MaxGap}
  /\ ups[1].last_activity_date <= today
  /\ call = [fn |-> "check_streak", before |-> Scalars(ups[1]), day |-> today,
             returned |-> FALSE]

\* user_progress.check_streak(), which saves
CheckStreakCall ==
  /\ ups' = [ups EXCEPT ![1] = SaveUserProgress(@, CheckStreak(Scalars(@), today))]
  /\ call' = [call EXCEPT !.before = Scalars(ups[1]), !.day = today, !.returned = TRUE]
  /\ UNCHANGED <<ucp, today, req, served, items, tables>>

\* one or more midnights pass
DayPasses ==
  /\ \E d \in (today + 1)..MaxGap : today' = d
  /\ UNCHANGED <<ups, ucp, req, served, call, items, tables>>

NextStreak == CheckStreakCall \/ DayPasses

SpecStreak == InitStreak /\ [][NextStreak]_vars

(***************************************************************************)
(* execute_code alone, against every behaviour of the sandbox.             *)
(***************************************************************************)
\* language tags handed to execute_code
ExecLanguages == {"python", "html", "c", "other", "Python"}

RetryKinds == {"inprogress", "non200", "reqerror"}

\* h followed by in-progress replies up to n replies in all
Pad(h, n) == [i \in 1..n |-> IF i <= Len(h) THEN h[i] ELSE "inprogress"]

\* the replies before the run is over: every sequence of up to MaxPolls
\* replies, and the sequences without exception carried on to one poll less
\* than, exactly, and one more than the attempt budget
ShortHistories ==
  UNION {[1..n -> PollKinds \ {"done"}] : n \in 0..MaxPolls}

LongHistories ==
  {Pad(h, n) : h \in {g \in ShortHistories : \A i \in 1..Len(g) : g[i] \in RetryKinds},
               n \in {max_attempts - 1, max_attempts, max_attempts + 1}}

AllSandboxes ==
  { [submit |-> "token", polls |-> h, raw |-> r] :
      h \in ShortHistories \cup LongHistories, r \in RawResults }
  \cup { [submit |-> o, polls |-> <<>>, raw |-> CHOOSE r \in RawResults : r.status_id = 5] :
           o \in SubmitOutcomes \ {"token"} }

InitExec ==
  /\ Quiet
  /\ ups = <<>>
  /\ today = 0
  /\ call \in {[fn |-> "execute_code", language |-> l, sb |-> sb,
                 out |-> Executed(NoResult, 0, 0), returned |-> FALSE] :
                l \in ExecLanguages, sb \in AllSandboxes}

\* judge0.execute_code(source_code, language, stdin)
ExecuteCodeCall ==
  /\ ~call.returned
  /\ call' = [call EXCEPT !.out = ExecuteCode(call.language, call.sb), !.returned = TRUE]
  /\ UNCHANGED <<ups, ucp, today, req, served, items, tables>>

NextExec == ExecuteCodeCall

SpecExec == InitExec /\ [][NextExec]_vars

(***************************************************************************)
(* _validate_with_ai_and_execution alone, for an exercise of every         *)
(* language of the catalogue and every behaviour of its environment.       *)
(***************************************************************************)
InitVal ==
  /\ Quiet
  /\ ups = <<>>
  /\ today = 0
  /\ call \in {[fn |-> "validate_with_ai_and_execution", language |-> LANGUAGE_CHOICES[l],
                 code |-> c, sb |-> sb, aiAvail |-> av, ai |-> ai, heur |-> h,
                 out |-> NoVerdict, returned |-> FALSE] :
                l \in DOMAIN LANGUAGE_CHOICES, c \in CodeInputs, sb \in Sandboxes,
                av \in BOOLEAN, ai \in AiOutcomes, h \in HeurOutcomes}

\* self._validate_with_ai_and_execution(exercise, submitted_code)
ValidateWithAiAndExecutionCall ==
  /\ ~call.returned
  /\ call' = [call EXCEPT !.out = ValidateWithAiAndExecution(call.language, call.code, call.sb,
                                                             call.aiAvail, call.ai, call.heur),
                          !.returned = TRUE]
  /\ UNCHANGED <<ups, ucp, today, req, served, items, tables>>

NextVal == ValidateWithAiAndExecutionCall

SpecVal == InitVal /\ [][NextVal]_vars

(***************************************************************************)
(* Heuristic validators (views.py, _validate_solution_intelligent and the  *)
(* _validate_<language> methods).  Program texts are strings; the string   *)
(* methods of the code are computed character by character.                *)
(***************************************************************************)
Char(s, i) == SubSeq(s, i, i)

\* sub in text
Contains(text, sub) ==
  \E i \in 1..(Len(text) - Len(sub) + 1) : SubSeq(text, i, i + Len(sub) - 1) = sub

\* any(kw in text for kw in subs)
ContainsAny(text, subs) == \E sub \in subs : Contains(text, sub)

\* the characters a string of this module holds, by code point: chr(1) to
\* chr(255).  The backquote, chr(96), cannot be written in a string of the
\* module; the apostrophe stands for it
CodePoints ==
  "\t\n\f\r !\"#$%&'()*+,-./0123456789:;<=>?@ABCDEFGHIJKLMNOPQRSTUVWXYZ[\\]^_'abcdefghijklmnopqrstuvwxyz{|}~ ¡¢£¤¥¦§¨©ª«¬­®¯°±²³´µ¶·¸¹º»¼½¾¿ÀÁÂÃÄÅÆÇÈÉÊËÌÍÎÏÐÑÒÓÔÕÖ×ØÙÚÛÜÝÞßàáâãäåæçèéêëìíîïðñòóôõö÷øùúûüýþÿ"

\* the capital letters of CodePoints: the characters str.lower() changes
UpperLetters == "ABCDEFGHIJKLMNOPQRSTUVWXYZÀÁÂÃÄÅÆÇÈÉÊËÌÍÎÏÐÑÒÓÔÕÖØÙÚÛÜÝÞ"

\* their small letters, each at the place of its capital
LowerLetters == "abcdefghijklmnopqrstuvwxyzàáâãäåæçèéêëìíîïðñòóôõöøùúûüýþ"

\* str.lower() and str.upper(): characters lo..hi of s with every letter of
\* `from` replaced by the letter of `to` at the same place, and the
\* character `odd` by the text `image` (the range is halved at each step)
RECURSIVE MapCase(_, _, _, _, _, _, _)
MapCase(s, from, to, odd, image, lo, hi) ==
  IF lo > hi THEN ""
  ELSE IF lo = hi
  THEN LET ch == Char(s, lo)
           at == {j \in 1..Len(from) : Char(from, j) = ch}
       IN IF ch = odd THEN image
          ELSE IF at = {} THEN ch ELSE Char(to, CHOOSE j \in at : TRUE)
  ELSE LET mid == (lo + hi) \div 2
       IN MapCase(s, from, to, odd, image, lo, mid)
            \o MapCase(s, from, to, odd, image, mid + 1, hi)

\* str.lower()
ToLower(s) == MapCase(s, UpperLetters, LowerLetters, "", "", 1, Len(s))

\* ord(ch): the place of the character in CodePoints (the first one, for the
\* apostrophe)
Ord(ch) == CHOOSE p \in 1..Len(CodePoints) :
             Char(CodePoints, p) = ch /\ \A q \in 1..(p - 1) : Char(CodePoints, q) # ch

\* the code points of a string
Codes(s) == [i \in 1..Len(s) |-> Ord(Char(s, i))]

\* str.upper(), as the code points of the result: the sharp s becomes SS,
\* the micro sign becomes U+039C and y with diaeresis becomes U+0178, two
\* capitals beyond chr(255)
ToUpper(s) ==
  LET upper == MapCase(s, LowerLetters, UpperLetters, "ß", "SS", 1, Len(s))
  IN [i \in 1..Len(upper) |-> IF Char(upper, i) = "µ" THEN 924
                               ELSE IF Char(upper, i) = "ÿ" THEN 376
                               ELSE Ord(Char(upper, i))]

\* str.isspace() of one character, which str.strip(), str.split() and \s of
\* re go by: tab, line feed, vertical tab (0x0b), form feed, carriage return,
\* the separators 0x1c to 0x1f, space, next line (0x85) and the no-break
\* space (0xa0).  The white space beyond code point 255 cannot be written in
\* a string of this module.
IsSpace(ch) ==
  ch \in {"\t", "\n", "", "\f", "\r", "", "", "", "", " ", "", " "}

\* str.strip()
Strip(s) ==
  LET inked == {i \in 1..Len(s) : ~IsSpace(Char(s, i))}
  IN IF inked = {} THEN ""
     ELSE SubSeq(s, CHOOSE i \in inked : \A j \in inked : i <= j,
                    CHOOSE i \in inked : \A j \in inked : j <= i)

\* s.split('\n'): the k-th line lies between the (k-1)-th and the k-th
\* line feed
SplitLines(s) ==
  LET feeds == {i \in 1..Len(s) : Char(s, i) = "\n"}
      before(i) == Cardinality({j \in feeds : j < i})
      first(k) == IF k = 1 THEN 1 ELSE 1 + CHOOSE i \in feeds : before(i) = k - 2
      last(k) == IF k = Cardinality(feeds) + 1 THEN Len(s)
                 ELSE (CHOOSE i \in feeds : before(i) = k - 1) - 1
  IN [k \in 1..(Cardinality(feeds) + 1) |-> SubSeq(s, first(k), last(k))]

\* len([line for line in code.strip().split('\n')
\*      if line.strip() and not line.strip().startswith(comment)])
CodeLines(code, comment) ==
  LET lines == SplitLines(Strip(code))
      starts(l) == Len(l) >= Len(comment) /\ SubSeq(l, 1, Len(comment)) = comment
  IN Cardinality({i \in 1..Len(lines) : Strip(lines[i]) # "" /\ ~starts(Strip(lines[i]))})

\* ''.join(s.split()) on characters lo..hi of s (the range is halved at
\* each step)
RECURSIVE RemoveSpaces(_, _, _)
RemoveSpaces(s, lo, hi) ==
  IF lo > hi THEN ""
  ELSE IF lo = hi THEN (IF IsSpace(Char(s, lo)) THEN "" ELSE Char(s, lo))
  ELSE LET mid == (lo + hi) \div 2
       IN RemoveSpaces(s, lo, mid) \o RemoveSpaces(s, mid + 1, hi)

\* sum(1 for a, b in zip(x, y) if a == b)
CommonChars(x, y) ==
  Cardinality({i \in 1..(IF Len(x) < Len(y) THEN Len(x) ELSE Len(y)) : Char(x, i) = Char(y, i)})

\* the characters \w of re matches in a str pattern: the letters, the digits
\* and the underscore of Unicode, here those of CodePoints
WordChars ==
  "0123456789ABCDEFGHIJKLMNOPQRSTUVWXYZ_abcdefghijklmnopqrstuvwxyzª²³µ¹º¼½¾ÀÁÂÃÄÅÆÇÈÉÊËÌÍÎÏÐÑÒÓÔÕÖØÙÚÛÜÝÞßàáâãäåæçèéêëìíîïðñòóôõöøùúûüýþÿ"

\* set(re.findall(r'<(\w+)', text))
Tags(text) ==
  LET word(i) == i <= Len(text) /\ Contains(WordChars, Char(text, i))
      last(i) == CHOOSE j \in i..Len(text) :
                   (\A k \in i..j : word(k)) /\ ~word(j + 1)
  IN {SubSeq(text, i + 1, last(i + 1)) : i \in {k \in 1..Len(text) : Char(text, k) = "<" /\ word(k + 1)}}

\* the dict a validator returns; a key it does not set reads Absent
HeurVerdict(ok, message, hint, feedback) ==
  [is_correct |-> ok, message |-> message, hint |-> hint, feedback |-> feedback]

\* _validate_html_css
ValidateHtmlCss(solution, code) ==
  LET missing_tags == Tags(ToLower(solution)) \ Tags(ToLower(code))
  IN IF Cardinality(missing_tags) = 0 THEN HeurVerdict(TRUE, "all_elements", Absent, "text")
     ELSE IF Cardinality(missing_tags) <= 2 THEN HeurVerdict(TRUE, "other_approach", Absent, "text")
     ELSE HeurVerdict(FALSE, "missing_elements", "text", Absent)

\* _validate_python
ValidatePython(solution, code) ==
  LET has_function == Contains(code, "def ")
      has_logic == ContainsAny(code, {"if", "for", "while", "return", "print"})
      solution_lower == ToLower(solution)
      code_lower == ToLower(code)
      solution_has_function == Contains(solution, "def ")
      solution_has_print == Contains(solution_lower, "print")
      solution_has_loop == ContainsAny(solution_lower, {"for ", "while "})
      solution_has_conditional == Contains(solution_lower, "if ")
      code_lines == CodeLines(code, "#")
  IN IF code_lines < 2 THEN HeurVerdict(FALSE, "too_short", "text", "text")
     ELSE IF solution_has_function /\ ~has_function
     THEN HeurVerdict(FALSE, "need_function", "text", "text")
     ELSE IF solution_has_loop /\ ~ContainsAny(code_lower, {"for ", "while "})
     THEN HeurVerdict(FALSE, "need_loop", "text", "text")
     ELSE IF solution_has_conditional /\ ~Contains(code_lower, "if ")
     THEN HeurVerdict(FALSE, "need_conditional", "text", "text")
     ELSE IF solution_has_print /\ ~Contains(code_lower, "print")
     THEN HeurVerdict(FALSE, "need_output", "text", "text")
     ELSE IF has_logic /\ code_lines >= 2 THEN HeurVerdict(TRUE, "valid", Absent, "text")
     ELSE HeurVerdict(FALSE, "incomplete", "text", "text")

\* _validate_javascript
ValidateJavascript(solution, code) ==
  LET solution_lower == ToLower(solution)
      code_lower == ToLower(code)
      has_function == ContainsAny(code, {"function", "=>", "const", "let", "var"})
      has_logic == ContainsAny(code, {"if", "for", "while", "return", "console.log", "alert", "prompt"})
      has_array_methods == ContainsAny(code, {".map", ".filter", ".reduce", ".forEach"})
      solution_has_function == ContainsAny(solution, {"function", "=>"})
      solution_has_loop == ContainsAny(solution_lower, {"for", "while", ".map", ".foreach"})
      solution_has_conditional == Contains(solution_lower, "if")
      code_lines == CodeLines(code, "//")
  IN IF solution_has_function /\ ~has_function
     THEN HeurVerdict(FALSE, "need_function", "text", "text")
     ELSE IF solution_has_loop
             /\ ~ContainsAny(code_lower, {"for", "while", ".map", ".foreach", ".filter", ".reduce"})
     THEN HeurVerdict(FALSE, "need_loop", "text", "text")
     ELSE IF solution_has_conditional /\ ~Contains(code_lower, "if")
     THEN HeurVerdict(FALSE, "need_conditional", "text", "text")
     ELSE IF code_lines < 2 THEN HeurVerdict(FALSE, "too_short", "text", "text")
     ELSE IF (has_function \/ has_logic \/ has_array_methods) /\ code_lines >= 2
     THEN HeurVerdict(TRUE, "valid", Absent, "text")
     ELSE HeurVerdict(FALSE, "incomplete", "text", "text")

\* _validate_cpp and _validate_c: the two differ in the output call they
\* look for (cout, printf).  all_requirements_met repeats the conditions of
\* the early returns, so it is true wherever it is read.
ValidateCFamily(solution, code, output) ==
  LET has_includes == Contains(code, "#include")
      has_main == Contains(code, "int main")
      solution_lower == ToLower(solution)
      solution_has_main == Contains(solution_lower, "int main")
      solution_has_output == Contains(solution_lower, output)
      solution_has_loop == ContainsAny(solution_lower, {"for", "while"})
      code_lines == CodeLines(code, "//")
  IN IF code_lines < 3 THEN HeurVerdict(FALSE, "too_short", "text", "text")
     ELSE IF ~has_includes THEN HeurVerdict(FALSE, "need_include", "text", "text")
     ELSE IF solution_has_main /\ ~has_main THEN HeurVerdict(FALSE, "need_main", "text", "text")
     ELSE IF solution_has_output /\ ~Contains(ToLower(code), output)
     THEN HeurVerdict(FALSE, "need_output", "text", "text")
     ELSE IF solution_has_loop /\ ~ContainsAny(ToLower(code), {"for", "while"})
     THEN HeurVerdict(FALSE, "need_loop", "text", "text")
     ELSE HeurVerdict(TRUE, "valid", Absent, "text")

\* _validate_java (all_requirements_met as in _validate_cpp)
ValidateJava(solution, code) ==
  LET has_class == Contains(code, "class")
      has_main == Contains(code, "public static void main")
      solution_lower == ToLower(solution)
      solution_has_main == Contains(solution_lower, "public static void main")
      solution_has_sysout == Contains(solution_lower, "system.out")
      solution_has_loop == ContainsAny(solution_lower, {"for", "while"})
      code_lines == CodeLines(code, "//")
  IN IF code_lines < 3 THEN HeurVerdict(FALSE, "too_short", "text", "text")
     ELSE IF ~has_class THEN HeurVerdict(FALSE, "need_class", "text", "text")
     ELSE IF solution_has_main /\ ~has_main THEN HeurVerdict(FALSE, "need_main", "text", "text")
     ELSE IF solution_has_sysout /\ ~Contains(ToLower(code), "system.out")
     THEN HeurVerdict(FALSE, "need_output", "text", "text")
     ELSE IF solution_has_loop /\ ~ContainsAny(ToLower(code), {"for", "while"})
     THEN HeurVerdict(FALSE, "need_loop", "text", "text")
     ELSE HeurVerdict(TRUE, "valid", Absent, "text")

\* _validate_sql
ValidateSql(solution, code) ==
  LET code_upper == ToUpper(code)
      solution_upper == ToUpper(solution)
      has_select == Contains(code_upper, Codes("SELECT"))
      has_sql_keyword == ContainsAny(code_upper, {Codes(kw) : kw \in {"SELECT", "INSERT", "UPDATE", "DELETE", "CREATE"}})
      solution_has_select == Contains(solution_upper, Codes("SELECT"))
  IN IF ~has_sql_keyword THEN HeurVerdict(FALSE, "need_query", "text", "text")
     ELSE IF solution_has_select /\ ~has_select
     THEN HeurVerdict(FALSE, "need_select", "text", "text")
     ELSE IF solution_has_select /\ has_select /\ Contains(solution_upper, Codes("FROM"))
             /\ ~Contains(code_upper, Codes("FROM"))
     THEN HeurVerdict(FALSE, "need_from", "text", "text")
     ELSE IF Contains(solution_upper, Codes("WHERE")) /\ ~Contains(code_upper, Codes("WHERE"))
     THEN HeurVerdict(FALSE, "need_where", "text", "text")
     ELSE IF Contains(solution_upper, Codes("JOIN")) /\ ~Contains(code_upper, Codes("JOIN"))
     THEN HeurVerdict(FALSE, "need_join", "text", "text")
     ELSE IF Len(Strip(code)) > 10 THEN HeurVerdict(TRUE, "valid", Absent, "text")
     ELSE HeurVerdict(FALSE, "incomplete", "text", "text")

\* _validate_generic; similarity > 0.7 and > 0.5 on the quotient of two
\* ints, decided on the ints
ValidateGeneric(solution, code) ==
  LET submitted_clean == ToLower(RemoveSpaces(code, 1, Len(code)))
      solution_clean == ToLower(RemoveSpaces(solution, 1, Len(solution)))
      common_chars == CommonChars(submitted_clean, solution_clean)
      longest == IF Len(solution_clean) > 1 THEN Len(solution_clean) ELSE 1
  IN IF Len(submitted_clean) < 15 THEN HeurVerdict(FALSE, "too_short", "text", "text")
     ELSE IF 10 * common_chars > 7 * longest THEN HeurVerdict(TRUE, "accepted", Absent, "text")
     ELSE IF 10 * common_chars > 5 * longest THEN HeurVerdict(FALSE, "close", "text", "text")
     ELSE HeurVerdict(FALSE, "different", "text", "text")

\* _validate_solution_intelligent
ValidateSolutionIntelligent(exLanguage, solution, code) ==
  LET language == ToLower(exLanguage)
  IN IF code = "" \/ Len(Strip(code)) < MinCodeLength
     THEN HeurVerdict(FALSE, "code_too_short", "text", "text")
     ELSE IF language \in {"html", "css", "xml"} THEN ValidateHtmlCss(solution, code)
     ELSE IF language \in {"javascript", "js", "typescript"} THEN ValidateJavascript(solution, code)
     ELSE IF language = "python" THEN ValidatePython(solution, code)
     ELSE IF language \in {"c++", "cpp"} THEN ValidateCFamily(solution, code, "cout")
     ELSE IF language = "java" THEN ValidateJava(solution, code)
     ELSE IF language = "c" THEN ValidateCFamily(solution, code, "printf")
     ELSE IF language = "sql" THEN ValidateSql(solution, code)
     ELSE ValidateGeneric(solution, code)

\* reference solutions and submissions: seeded exercises (management
\* commands populate_academy, create_advanced_courses, rebuild_with_working_tools)
\* and short programs of the same kinds, one of them with a form feed, a
\* vertical tab, a no-break space, a unit separator and a next-line
\* character, and texts with accented letters in tag names, in both cases,
\* and with a sharp s
Programs ==
  { "print(\"Hello, World!\")",
    "a = 10\nb = 5\n\nprint(a + b)\nprint(a - b)\nprint(a * b)",
    "def addition(a, b):\n    return a + b\n\nresultat = addition(15, 27)\nprint(resultat)",
    "for i in range(3):\n    print(i)",
    "total = 6\nprint(total)",
    "print(\"one for all\")\nprint(\"done\")",
    "console.log(\"Hello JS\");",
    "function add(a, b) {\n  return a + b;\n}",
    "public class HelloWorld {\n    public static void main(String[] args) {\n        System.out.println(\"Hello, Java!\");\n    }\n}",
    "#include <iostream>\n\nint main() {\n    std::cout << \"Hello, C++\" << std::endl;\n    return 0;\n}",
    "#include <stdio.h>\n\nint main() {\n    printf(\"Hello, C!\");\n    return 0;\n}",
    "#include <stdio.h>\n\nint main() {\n    for (int i = 0; i < 3; i++)\n        printf(\"%d\", i);\n    return 0;\n}",
    "#include <stdio.h>\nint main() { printf(\"012\"); return 0; }",
    "SELECT * FROM users;",
    "SELECT 1;",
    "<h1>Title</h1>\n<p>Text</p>",
    "echo hello",
    "echo hello world from the shell",
    "\fechohello world fromthe shell",
    "<é><à><ü>",
    "<p>no such tag</p>",
    "déjà vu déjà vu déjà",
    "DÉJÀ VU DÉJÀ VU DÉJÀ",
    "select straße from été where µ = ÿ" }

\* exercise.language of the exercises validated
HeurLanguages == {"python", "javascript", "java", "cpp", "c", "sql", "html", "other"}

InitHeur ==
  /\ Quiet
  /\ ups = <<>>
  /\ today = 0
  /\ call \in {[fn |-> "validate", language |-> l, solution |-> sol, code |-> c,
                 out |-> HeurVerdict(FALSE, "none", Absent, Absent), returned |-> FALSE] :
                l \in HeurLanguages, sol \in Programs, c \in Programs}

\* self._validate_solution_intelligent(exercise, submitted_code)
ValidateCall ==
  /\ ~call.returned
  /\ call' = [call EXCEPT !.out = ValidateSolutionIntelligent(call.language, call.solution, call.code),
                          !.returned = TRUE]
  /\ UNCHANGED <<ups, ucp, today, req, served, items, tables>>

NextHeur == ValidateCall

SpecHeur == InitHeur /\ [][NextHeur]_vars

(***************************************************************************)
(* AI grader client (services/gemini_service.py).  The reply text of the   *)
(* oracle is a string; json.loads and the regular expressions of           *)
(* _parse_gemini_response are computed on its characters.                  *)
(***************************************************************************)
\* the least element of a set of positions, or `none` for the empty set
FirstAt(S, none) == IF S = {} THEN none ELSE CHOOSE x \in S : \A y \in S : x <= y

\* \s* of re from i on: the first position that holds no white space
SkipSpace(t, i) == FirstAt({j \in i..Len(t) : ~IsSpace(Char(t, j))}, Len(t) + 1)

\* json.decoder.WHITESPACE, [ \t\n\r]*: the first position from i on that
\* holds none of the four
SkipBlank(t, i) ==
  FirstAt({j \in i..Len(t) : Char(t, j) \notin {" ", "\t", "\n", "\r"}}, Len(t) + 1)

\* t[i:].startswith(sub)
StartsAt(t, i, sub) ==
  i >= 1 /\ i + Len(sub) - 1 <= Len(t) /\ SubSeq(t, i, i + Len(sub) - 1) = sub

\* a value decoded by json: its type and, for strings and numbers, its text
JsonValue(kind, text) == [kind |-> kind, text |-> text]

\* the outcome of a scan: the value, the members of an object as
\* <<key, value>> pairs, the position after it
Scanned(ok, value, members, next) ==
  [ok |-> ok, value |-> value, members |-> members, next |-> next]

\* json.JSONDecodeError: the text is no JSON
ScanError == Scanned(FALSE, JsonValue("error", ""), <<>>, 0)

\* sys.int_max_str_digits as the interpreter sets it: the longest run of
\* digits int() converts
MaxIntDigits == 4300

\* sys.float_info.max has 309 digits before the fraction
MaxFloatDigits == 309

\* the ValueError of int() on a literal of more digits, which is no
\* JSONDecodeError
ScanValueError == Scanned(FALSE, JsonValue("ValueError", ""), <<>>, 0)

\* s repeated n times
RECURSIVE Repeat(_, _)
Repeat(s, n) ==
  IF n = 0 THEN ""
  ELSE IF n % 2 = 1 THEN s \o Repeat(s, n - 1)
  ELSE Repeat(s \o s, n \div 2)

\* the value of a hexadecimal digit, -1 for any other character
HexDigit(ch) ==
  LET at == {j \in 1..22 : Char("0123456789abcdefABCDEF", j) = ch}
  IN IF at = {} THEN -1
     ELSE LET j == CHOOSE k \in at : TRUE IN IF j > 16 THEN j - 7 ELSE j - 1

\* the code point of the \uXXXX escape that starts at j, -1 when fewer than
\* four hexadecimal digits follow the u
EscapedCodePoint(raw, j) ==
  IF j + 5 > Len(raw) \/ \E k \in 2..5 : HexDigit(Char(raw, j + k)) = -1 THEN -1
  ELSE 4096 * HexDigit(Char(raw, j + 2)) + 256 * HexDigit(Char(raw, j + 3))
       + 16 * HexDigit(Char(raw, j + 4)) + HexDigit(Char(raw, j + 5))

\* the positions of raw, the text between the quotes of a string literal, that
\* open an escape: a backslash after an even number of backslashes
EscapeOpens(raw) ==
  {j \in 1..Len(raw) : Char(raw, j) = "\\" /\
     LET k == FirstAt({m \in 1..j : \A n \in m..j : Char(raw, n) = "\\"}, j)
     IN (j - k) % 2 = 0}

\* the string a literal with the text raw between its quotes stands for
\* (json.decoder.scanstring, strict), `opens` its escapes and `next` the
\* position after it: a raw character below chr(32) or an escape other than
\* \" \\ \/ \b \f \n \r \t \uXXXX is an error.  A low surrogate escape after a
\* high one gives one character with it.  A decoded character that no
\* string of the module holds (chr(0) and beyond chr(255)) is written "?"
DecodeString(raw, opens, next) ==
  LET unicode(j) == j \in opens /\ Char(raw, j + 1) = "u"
      point(j) == EscapedCodePoint(raw, j)
      high(j) == unicode(j) /\ point(j) \in 55296..56319
      low(j) == unicode(j) /\ point(j) \in 56320..57343
      decoded(c) == CASE c = "n" -> "\n" [] c = "r" -> "\r" [] c = "t" -> "\t"
                      [] c = "f" -> "\f" [] c = "b" -> Char(CodePoints, 8) [] OTHER -> c
      piece(j) == IF unicode(j)
                  THEN (IF low(j) /\ high(j - 6) THEN ""
                        ELSE IF point(j) \in 1..255 THEN Char(CodePoints, point(j)) ELSE "?")
                  ELSE IF j \in opens THEN decoded(Char(raw, j + 1))
                  ELSE IF j - 1 \in opens \/ \E k \in 2..5 : unicode(j - k) THEN ""
                  ELSE Char(raw, j)
      RECURSIVE join(_, _)
      join(lo, hi) == IF lo > hi THEN ""
                      ELSE IF lo = hi THEN piece(lo)
                      ELSE join(lo, (lo + hi) \div 2) \o join((lo + hi) \div 2 + 1, hi)
  IN IF \E j \in 1..Len(raw) : Contains(SubSeq(CodePoints, 1, 31), Char(raw, j))
     THEN ScanError
     ELSE IF \E j \in opens :
               \/ Char(raw, j + 1) \notin {"\"", "\\", "/", "b", "f", "n", "r", "t", "u"}
               \/ unicode(j) /\ point(j) = -1
     THEN ScanError
     ELSE Scanned(TRUE, JsonValue("string", join(1, Len(raw))), <<>>, next)

\* the string literal whose opening quote is at i: it ends at the first quote
\* not escaped
ScanString(t, i) ==
  LET escaped(j) ==
        LET k == CHOOSE m \in i..(j - 1) :
                   Char(t, m) # "\\" /\ \A n \in (m + 1)..(j - 1) : Char(t, n) = "\\"
        IN (j - 1 - k) % 2 = 1
      close == FirstAt({j \in (i + 1)..Len(t) : Char(t, j) = "\"" /\ ~escaped(j)}, 0)
  IN IF close = 0 THEN ScanError
     ELSE DecodeString(SubSeq(t, i + 1, close - 1),
                       EscapeOpens(SubSeq(t, i + 1, close - 1)), close + 1)

\* the number at i: -?(0|[1-9]\d*)(\.\d+)?([eE][-+]?\d+)? (json.scanner.NUMBER_RE).
\* A literal without fraction and exponent is converted by int(), which
\* raises ValueError on more than MaxIntDigits digits; the others are
\* converted by float(), which takes any number of digits and gives an
\* infinity for more than MaxFloatDigits digits before the fraction.  A
\* number is held as the text Python shows it with: the literals of the
\* texts are written as Python shows their values
ScanNumber(t, i) ==
  LET digit(p) == p <= Len(t) /\ Contains("0123456789", Char(t, p))
      digitsEnd(p) == FirstAt({j \in p..Len(t) : ~digit(j)}, Len(t) + 1)
      p1 == IF StartsAt(t, i, "-") THEN i + 1 ELSE i
      intEnd == IF StartsAt(t, p1, "0") THEN p1 + 1
                ELSE IF digit(p1) THEN digitsEnd(p1) ELSE 0
      fracEnd == IF StartsAt(t, intEnd, ".") /\ digit(intEnd + 1)
                 THEN digitsEnd(intEnd + 1) ELSE intEnd
      signEnd == IF StartsAt(t, fracEnd + 1, "+") \/ StartsAt(t, fracEnd + 1, "-")
                 THEN fracEnd + 2 ELSE fracEnd + 1
      expEnd == IF (StartsAt(t, fracEnd, "e") \/ StartsAt(t, fracEnd, "E")) /\ digit(signEnd)
                THEN digitsEnd(signEnd) ELSE fracEnd
  IN IF intEnd = 0 THEN ScanError
     ELSE IF expEnd = intEnd /\ intEnd - p1 > MaxIntDigits THEN ScanValueError
     ELSE IF expEnd = fracEnd /\ fracEnd > intEnd /\ intEnd - p1 > MaxFloatDigits
     THEN Scanned(TRUE, JsonValue("number", IF p1 = i THEN "inf" ELSE "-inf"), <<>>, expEnd)
     ELSE Scanned(TRUE, JsonValue("number", SubSeq(t, i, expEnd - 1)), <<>>, expEnd)

\* json.scanner.py_make_scanner with JSONObject and JSONArray: the value at i
\* (mode "value"), the members of an object from the key at i on (mode
\* "members", acc the members before), the elements of an array from the
\* element at i on (mode "elements").  The exception of a value is the
\* exception of the object or array that holds it.  The texts nest their
\* objects and arrays far less deeply than the recursion limit of the
\* interpreter allows
RECURSIVE JsonScan(_, _, _, _)
JsonScan(t, i, mode, acc) ==
  IF mode = "value" THEN
    IF i > Len(t) THEN ScanError
    ELSE IF Char(t, i) = "\"" THEN ScanString(t, i)
    ELSE IF Char(t, i) = "{" THEN
      LET p == SkipBlank(t, i + 1)
      IN IF StartsAt(t, p, "}") THEN Scanned(TRUE, JsonValue("object", ""), <<>>, p + 1)
         ELSE IF ~StartsAt(t, p, "\"") THEN ScanError
         ELSE JsonScan(t, p, "members", <<>>)
    ELSE IF Char(t, i) = "[" THEN
      LET p == SkipBlank(t, i + 1)
      IN IF StartsAt(t, p, "]") THEN Scanned(TRUE, JsonValue("array", ""), <<>>, p + 1)
         ELSE JsonScan(t, p, "elements", <<>>)
    ELSE IF StartsAt(t, i, "null") THEN Scanned(TRUE, JsonValue("null", ""), <<>>, i + 4)
    ELSE IF StartsAt(t, i, "true") THEN Scanned(TRUE, JsonValue("true", ""), <<>>, i + 4)
    ELSE IF StartsAt(t, i, "false") THEN Scanned(TRUE, JsonValue("false", ""), <<>>, i + 5)
    ELSE IF \E n \in {ScanNumber(t, i)} : n.ok \/ n = ScanValueError THEN ScanNumber(t, i)
    ELSE IF StartsAt(t, i, "NaN") THEN Scanned(TRUE, JsonValue("number", "NaN"), <<>>, i + 3)
    ELSE IF StartsAt(t, i, "Infinity")
    THEN Scanned(TRUE, JsonValue("number", "Infinity"), <<>>, i + 8)
    ELSE IF StartsAt(t, i, "-Infinity")
    THEN Scanned(TRUE, JsonValue("number", "-Infinity"), <<>>, i + 9)
    ELSE ScanError
  ELSE IF mode = "members" THEN
    LET key == ScanString(t, i)
        colon == SkipBlank(t, key.next)
        val == JsonScan(t, SkipBlank(t, colon + 1), "value", <<>>)
        after == SkipBlank(t, val.next)
        more == acc \o <<[key |-> key.value.text, value |-> val.value]>>
        next_key == SkipBlank(t, after + 1)
    IN IF ~key.ok \/ ~StartsAt(t, colon, ":") THEN ScanError
       ELSE IF ~val.ok THEN val
       ELSE IF StartsAt(t, after, "}") THEN Scanned(TRUE, JsonValue("object", ""), more, after + 1)
       ELSE IF ~StartsAt(t, after, ",") \/ ~StartsAt(t, next_key, "\"") THEN ScanError
       ELSE JsonScan(t, next_key, "members", more)
  ELSE
    LET val == JsonScan(t, i, "value", <<>>)
        after == SkipBlank(t, val.next)
    IN IF ~val.ok THEN val
       ELSE IF StartsAt(t, after, "]") THEN Scanned(TRUE, JsonValue("array", ""), <<>>, after + 1)
       ELSE IF ~StartsAt(t, after, ",") THEN ScanError
       ELSE JsonScan(t, SkipBlank(t, after + 1), "elements", <<>>)

\* json.loads(t): one value between white space; anything else raises
\* JSONDecodeError, and an integer literal too long raises ValueError where
\* it stands (ok is FALSE)
JsonLoads(t) ==
  CHOOSE out \in {IF ~v.ok THEN v
                  ELSE IF SkipBlank(t, v.next) = Len(t) + 1 THEN v ELSE ScanError :
                    v \in {JsonScan(t, SkipBlank(t, 1), "value", <<>>)}} : TRUE

\* the dict evaluate_code returns (is_correct and score as the values they
\* hold, `via` the return statement that built it; the three texts of the
\* dict are not modelled)
AiVerdict(is_correct, score, via) == [is_correct |-> is_correct, score |-> score, via |-> via]

\* a Python bool and a Python int as values
PyBool(b) == JsonValue(IF b THEN "true" ELSE "false", "")

PyInt(n) == JsonValue("number", ToString(n))

\* how a method ends: it returns a dict, or an exception leaves it
Returned(verdict) == [exc |-> "none", verdict |-> verdict]

Raised(exc) == [exc |-> exc, verdict |-> AiVerdict(PyBool(FALSE), PyInt(0), "none")]

\* GeminiService._basic_validation with _calculate_similarity: similarity is
\* common / max_len, compared with 0.7 on the two ints; int(similarity * 100)
\* is float arithmetic
BasicValidation(submitted_code, solution_code) ==
  LET submitted_clean == ToLower(RemoveSpaces(submitted_code, 1, Len(submitted_code)))
      solution_clean == ToLower(RemoveSpaces(solution_code, 1, Len(solution_code)))
      common == IF submitted_clean = "" \/ solution_clean = "" THEN 0
                ELSE CommonChars(submitted_clean, solution_clean)
      max_len == IF Len(submitted_clean) > Len(solution_clean) THEN Len(submitted_clean)
                 ELSE Len(solution_clean)
  IN IF Len(submitted_clean) < 10 THEN AiVerdict(PyBool(FALSE), PyInt(0), "basic_too_short")
     ELSE IF 10 * common > 7 * max_len
     THEN AiVerdict(PyBool(TRUE), PyInt(FloatPercent(common, max_len)), "basic")
     ELSE AiVerdict(PyBool(FALSE), PyInt(FloatPercent(common, max_len)), "basic")

\* text.replace(sub, '')
RECURSIVE Without(_, _)
Without(text, sub) ==
  LET at == FirstAt({i \in 1..Len(text) : StartsAt(text, i, sub)}, 0)
  IN IF at = 0 THEN text
     ELSE SubSeq(text, 1, at - 1) \o Without(SubSeq(text, at + Len(sub), Len(text)), sub)

\* the Markdown code fence, three backquotes.  A TLA+ string cannot hold a
\* backquote: the texts of the model hold an apostrophe wherever the reply
\* holds a backquote.
Fence == "'''"

\* group 1 of re.search(r'<fence>(?:json|JSON)?\s*(\{.*?\})\s*<fence>', text,
\* re.DOTALL), "" when nothing matches
FencedObject(text) ==
  LET brace(s) == SkipSpace(text, IF StartsAt(text, s + 3, "json") \/ StartsAt(text, s + 3, "JSON")
                                  THEN s + 7 ELSE s + 3)
      closes(s) == {e \in (brace(s) + 1)..Len(text) :
                      Char(text, e) = "}" /\ StartsAt(text, SkipSpace(text, e + 1), Fence)}
      starts == {s \in 1..Len(text) :
                   StartsAt(text, s, Fence) /\ StartsAt(text, brace(s), "{") /\ closes(s) # {}}
      first == FirstAt(starts, 0)
  IN IF starts = {} THEN "" ELSE SubSeq(text, brace(first), FirstAt(closes(first), 0))

\* group 0 of re.search(r'\{[^}]*"is_correct"[^}]*\}', text, re.DOTALL), ""
\* when nothing matches
VerdictObject(text) ==
  LET close(s) == FirstAt({e \in (s + 1)..Len(text) : Char(text, e) = "}"}, 0)
      starts == {s \in 1..Len(text) :
                   /\ Char(text, s) = "{"
                   /\ close(s) # 0
                   /\ Contains(SubSeq(text, s + 1, close(s) - 1), "\"is_correct\"")}
      first == FirstAt(starts, 0)
  IN IF starts = {} THEN "" ELSE SubSeq(text, first, close(first))

\* the try block of GeminiService._parse_gemini_response.  `response` is
\* the body of a 200 answer as the method reads it: its shape is
\* "no_candidates" (no 'candidates' key or an empty list), "no_parts" (a
\* candidate without content.parts), "empty_parts" (parts[0] raises
\* IndexError), or "text" with the text of the first part.  json.loads may
\* raise ValueError, and result.get raises AttributeError on a value that is
\* no dict; JSONDecodeError is caught and the verdict salvaged from the text
ParseCandidate(response) ==
  IF response.shape \in {"no_candidates", "no_parts"}
  THEN Returned(AiVerdict(PyBool(FALSE), PyInt(0), "unexpected_structure"))
  ELSE IF response.shape = "empty_parts"
  THEN Raised("IndexError")
  ELSE
    LET \* the two removals of code fences
        unfenced(stripped) ==
          IF FencedObject(stripped) # "" THEN FencedObject(stripped)
          ELSE IF StartsAt(stripped, 1, Fence)
          THEN Strip(Without(Without(Without(stripped, (Fence \o "json")), (Fence \o "JSON")), Fence))
          ELSE stripped
        \* the object that holds "is_correct", if the text has one
        extracted(text) == IF VerdictObject(text) # "" THEN VerdictObject(text) ELSE text
        \* result.get(key, default)
        get(result, key, default) ==
          LET at == {k \in 1..Len(result.members) : result.members[k].key = key}
          IN IF at = {} THEN default
             ELSE result.members[CHOOSE k \in at : \A j \in at : j <= k].value
        \* the verdict read from the parsed object, or salvaged from the text
        verdict(text, result) ==
          LET is_correct == Contains(ToLower(text), "correct")
                              /\ ~Contains(ToLower(text), "incorrect")
          IN IF result.ok /\ result.value.kind = "object"
             THEN Returned(AiVerdict(get(result, "is_correct", PyBool(FALSE)),
                                     get(result, "score", PyInt(0)), "parsed"))
             ELSE IF result.ok
             THEN Raised("AttributeError")
             ELSE IF result = ScanValueError
             THEN Raised("ValueError")
             ELSE Returned(AiVerdict(PyBool(is_correct),
                                     PyInt(IF is_correct THEN 100 ELSE 50), "salvaged"))
        \* json.loads on the text, read once
        parsed(text) == CHOOSE out \in {verdict(text, result) : result \in {JsonLoads(text)}} : TRUE
    IN CHOOSE out \in {parsed(text) :
                        text \in {extracted(clean) :
                                   clean \in {unfenced(stripped) :
                                              stripped \in {Strip(response.text)}}}} : TRUE

\* GeminiService._parse_gemini_response: `except Exception` around the try
\* block returns the dict of a parse error
ParseGeminiResponse(response) ==
  CHOOSE out \in {IF tried.exc # "none"
                  THEN Returned(AiVerdict(PyBool(FALSE), PyInt(0), "parse_exception"))
                  ELSE tried : tried \in {ParseCandidate(response)}} : TRUE

\* the try block of GeminiService.evaluate_code: oracle.post is the outcome
\* of requests.post (a response, or the exception it raises), oracle.json
\* whether response.json() decodes the body or raises; with the dict or the
\* exception goes the number of POST requests issued
CallOracle(submitted_code, solution_code, oracle) ==
  IF oracle.post # "response" THEN [out |-> Raised(oracle.post), posts |-> 1]
  ELSE IF oracle.status # 200
  THEN [out |-> Returned(BasicValidation(submitted_code, solution_code)), posts |-> 1]
  ELSE IF ~oracle.json THEN [out |-> Raised("JSONDecodeError"), posts |-> 1]
  ELSE [out |-> ParseGeminiResponse(oracle.body), posts |-> 1]

\* what evaluate_code hands back to its caller
Evaluated(out, posts) == [exc |-> out.exc, verdict |-> out.verdict, posts |-> posts]

\* evaluate_code without its exception handler: what the try block raises
\* leaves the method
EvaluateCode_uncaught(available, submitted_code, solution_code, oracle) ==
  IF ~available
  THEN Evaluated(Returned(BasicValidation(submitted_code, solution_code)), 0)
  ELSE CHOOSE out \in {Evaluated(tried.out, tried.posts) :
                         tried \in {CallOracle(submitted_code, solution_code, oracle)}} : TRUE

\* GeminiService.evaluate_code: without credential the fallback and no
\* request; `except Exception` around the try block returns the fallback.
\* _basic_validation, called outside the try block, raises on no pair of
\* strings
EvaluateCode(available, submitted_code, solution_code, oracle) ==
  IF ~available
  THEN Evaluated(Returned(BasicValidation(submitted_code, solution_code)), 0)
  ELSE CHOOSE out \in {IF tried.out.exc # "none"
                       THEN Evaluated(Returned(BasicValidation(submitted_code, solution_code)),
                                      tried.posts)
                       ELSE Evaluated(tried.out, tried.posts) :
                         tried \in {CallOracle(submitted_code, solution_code, oracle)}} : TRUE

\* reply texts of the oracle: the object asked for (accepting, rejecting),
\* the object in a code fence, inside prose, cut off by the token limit, an
\* unclosed fence, prose alone, an object with a nested object, with a
\* closing brace inside its feedback, without verdict, with a verdict that
\* is no boolean, an array, an array between a form feed and a next-line
\* character, objects whose feedback holds \uXXXX escapes (a letter, a
\* surrogate pair, a character beyond chr(255)) and \b, a raw control
\* character, an escape that is none, a score of MaxIntDigits digits and
\* scores of one digit more (an integer, an integer before a syntax error, a
\* number with a fraction), nothing
OracleTexts ==
  { "{\"is_correct\": true, \"score\": 95, \"feedback\": \"Good\", \"suggestions\": \"\", \"accepts_alternative\": true, \"reasoning\": \"ok\"}",
    "{\"is_correct\": false, \"score\": 20, \"feedback\": \"Wrong output\"}",
    "'''json\n{\"is_correct\": true, \"score\": 90}\n'''",
    "Here is my evaluation: {\"is_correct\": false, \"score\": 10} Hope it helps.",
    "{\"is_correct\": false, \"score\": 20, \"feedback\": \"The loop never",
    "{\"is_correct\": true, \"score\": 90, \"feedback\": \"Well",
    "'''json\n{\"is_correct\": false, \"score\": 0",
    "The solution is correct.",
    "The solution is incorrect.",
    "I cannot evaluate this code.",
    "{\"is_correct\": true, \"details\": {\"a\": 1}}",
    "{\"is_correct\": false, \"score\": 30, \"feedback\": \"Missing } after the loop\"}",
    "{\"score\": 80}",
    "{\"is_correct\": \"false\"}",
    "[1, 2]",
    "\f[1, 2]",
    "{\"is_correct\": false, \"score\": 10, \"feedback\": \"pas bon \\u00e0 revoir\"}",
    "{\"is_correct\": false, \"score\": 15, \"feedback\": \"a\\bc \\ud83d\\ude00 \\u0153\"}",
    "{\"is_correct\": false, \"score\": 10, \"feedback\": \"column\"}",
    "{\"is_correct\": false, \"score\": 10, \"feedback\": \"\\u12g4\"}",
    "{\"is_correct\": true, \"score\": " \o Repeat("9", MaxIntDigits) \o "}",
    "{\"is_correct\": true, \"score\": -" \o Repeat("9", MaxIntDigits + 1) \o "}",
    "{\"is_correct\": true, \"score\": " \o Repeat("9", MaxIntDigits + 1) \o ", }",
    "{\"is_correct\": true, \"score\": " \o Repeat("9", MaxIntDigits + 1) \o ".5}",
    "" }

\* behaviours of the oracle during one evaluate_code call
Oracles ==
  { [post |-> "response", status |-> 200, json |-> TRUE, body |-> [shape |-> "text", text |-> t]] :
      t \in OracleTexts }
  \cup { [post |-> "response", status |-> 200, json |-> TRUE, body |-> [shape |-> sh, text |-> ""]] :
           sh \in {"no_candidates", "no_parts", "empty_parts"} }
  \cup { [post |-> "response", status |-> st, json |-> TRUE,
          body |-> [shape |-> "text", text |-> "{\"is_correct\": true, \"score\": 95}"]] :
           st \in {201, 429, 500} }
  \cup { [post |-> po, status |-> 200, json |-> js, body |-> [shape |-> "no_candidates", text |-> ""]] :
           po \in {"response", "timeout", "connection_error"}, js \in {FALSE} }

\* <<submitted code, reference solution>>: identical, identical up to case
\* and blanks, 29 of 50 and 7 of 10 characters in place, identical up to a
\* form feed and a no-break space, identical up to the case of accented
\* letters, too short, an empty reference, unrelated programs
CodePairs ==
  { <<"print(\"Hello, World!\")", "print(\"Hello, World!\")">>,
    <<"PRINT( \"Hello, World!\" )", "print(\"Hello, World!\")">>,
    <<"total = 0\nfor i in range(10):\n    total = i",
      "total = 0\nfor i in range(10):\n    total = total + i\nprint(2*total)">>,
    <<"abcdefghij", "abcdefgxyz">>,
    <<"abcdefghijk", "abcdefghxyz">>,
    <<"abcde\ffghij ", "abcdefghij">>,
    <<"DÉJÀ VU DÉJÀ", "déjà vu déjà">>,
    <<"x = 1", "x = 1">>,
    <<"print(\"Hello, World!\")", "">>,
    <<"total = 6\nprint(total)", "for i in range(3):\n    print(i)">> }

InitAi ==
  /\ Quiet
  /\ ups = <<>>
  /\ today = 0
  /\ call \in {[fn |-> "evaluate_code", available |-> av, submitted_code |-> cp[1],
                 solution_code |-> cp[2], oracle |-> o,
                 out |-> Evaluated(Raised("none"), 0),
                 returned |-> FALSE] :
                av \in BOOLEAN, cp \in CodePairs, o \in Oracles}

\* gemini.evaluate_code(submitted_code, solution_code, language, instructions,
\* execution_output)
EvaluateCodeCall ==
  /\ ~call.returned
  /\ call' = [call EXCEPT !.out = EvaluateCode(call.available, call.submitted_code,
                                              call.solution_code, call.oracle),
                          !.returned = TRUE]
  /\ UNCHANGED <<ups, ucp, today, req, served, items, tables>>

NextAi == EvaluateCodeCall

SpecAi == InitAi /\ [][NextAi]_vars

(***************************************************************************)
(* The course while staff edit it (CourseItemViewSet, CourseViewSet,       *)
(* AcademyVideoViewSet, AcademyExerciseViewSet), a management command      *)
(* empties the tables, and the user starts the course and completes items. *)
(* call.workers is the number of workers that serve the user: with two,    *)
(* staff create and delete items of the course; with one, staff also       *)
(* update items, delete courses, videos and exercises and run management   *)
(* commands, and at most MaxWrites of their requests write a row.  Requests *)
(* of the user and requests of staff together are at most MaxTogether.     *)
(* call.created is the highest id a CourseItem row was given, call.edits   *)
(* the number of staff requests and command runs begun, call.update the    *)
(* update of an item that has loaded its row and not saved yet,            *)
(* call.command the statements the running command has still to execute.   *)
(* Another course, empty at first, takes the items staff move out of the   *)
(* course.                                                                 *)
(***************************************************************************)
\* a key the data of a request does not carry, where the value is a number
NotSent == -1

\* no update of an item is under way
NoUpdate == [id |-> NoItem, instance |-> NoCourseItem]

\* the UserProgress row of a user who has completed the seeded items 1..n of
\* the course, one complete_item after the other, on day 0
RECURSIVE UserAfter(_)
UserAfter(n) ==
  IF n = 0 THEN NewUserProgress
  ELSE SaveUserProgress(UserAfter(n - 1),
                        CheckStreak(AddXp(Scalars(UserAfter(n - 1)), ItemXp(ItemType(n))), 0))

\* the UserCourseProgress row of that user: created by the first
\* complete_item, recalculated by the last, current_item the item after the
\* last one that had a successor
ProgressAfter(n) ==
  IF n = 0 THEN NoCourseProgress
  ELSE [CalculateProgress([NewCourseProgress EXCEPT !.is_started = TRUE, !.started_at = 0],
                          n, NumItems, 0)
          EXCEPT !.completed_items = 1..n,
                 !.current_item = IF n < NumItems THEN n + 1
                                  ELSE IF n > 1 THEN n ELSE NoItem]

\* the user has completed the first n items of the course before staff
\* take it up, for every n
InitCourse ==
  /\ items = SeededItems
  /\ req = [r \in Reqs |-> IdleReq]
  /\ served = 0
  /\ today = 0
  /\ \E n \in 0..NumItems :
       /\ ups = IF n = 0 THEN <<>> ELSE <<UserAfter(n)>>
       /\ ucp = ProgressAfter(n)
       /\ tables = [SeededTables EXCEPT !.progress_ids = IF n = 0 THEN 0 ELSE 1]
  /\ \E workers \in 1..Cardinality(Reqs) :
       call = [fn |-> "course_items", workers |-> workers, created |-> NumItems,
               edits |-> 0, writes |-> 0, update |-> NoUpdate, command |-> <<>>]

\* the requests of the user are served one at a time
OneWorker == call.workers = 1

\* the courses there are
Courses ==
  (IF tables.course THEN {"this"} ELSE {}) \cup (IF tables.others THEN {"other"} ELSE {})

\* unique_together (course, order): no row but `except` has this order in
\* this course
OrderIsFree(course, order, except) ==
  \A j \in DOMAIN items \ except : items[j].course = course => items[j].order # order

\* the data a request of staff can carry for the fields of
\* CourseItemWriteSerializer: each key sent or not, course, video and
\* exercise naming rows there are, video and exercise possibly null
ItemData ==
  [course : Courses \cup {Absent},
   content_type : CONTENT_TYPE_CHOICES \cup {Absent},
   video : tables.videos \cup {NoContent, NotSent},
   exercise : tables.exercises \cup {NoContent, NotSent},
   order : (0..MaxOrder) \cup {NotSent}]

\* CourseItemWriteSerializer.validate: data.get of a key not sent is None;
\* the key the content type names must be sent and not null, nothing is
\* asked of the other key
Validate(data) ==
  /\ ~(data.content_type = "video" /\ data.video \in {NoContent, NotSent})
  /\ ~(data.content_type = "exercise" /\ data.exercise \in {NoContent, NotSent})

\* the fields without default: POST and PUT must send them, PATCH need not
RequiredSent(data, partial) ==
  partial \/ (data.course # Absent /\ data.content_type # Absent)

\* the row serializer.save() writes: the keys sent replace the fields of the
\* instance; order, one of the unique_together fields, takes its default 0
\* when POST or PUT do not send it
WithData(instance, data, partial) ==
  [course |-> IF data.course # Absent THEN data.course ELSE instance.course,
   content_type |-> IF data.content_type # Absent THEN data.content_type
                    ELSE instance.content_type,
   video |-> IF data.video # NotSent THEN data.video ELSE instance.video,
   exercise |-> IF data.exercise # NotSent THEN data.exercise ELSE instance.exercise,
   order |-> IF data.order # NotSent THEN data.order
             ELSE IF partial THEN instance.order ELSE 0]

\* the rows a request of staff that passes the serializer can write over
\* `instance`
ItemInputs(instance, partial) ==
  {WithData(instance, data, partial) :
     data \in {d \in ItemData : RequiredSent(d, partial) /\ Validate(d)}}

\* the constraints of the table on the row written under primary key id:
\* the foreign keys name rows there are, (course, order) is unique; the
\* serializer validates the same on the data sent
RowFits(row, id) ==
  /\ row.course \in Courses
  /\ row.video \in tables.videos \cup {NoContent}
  /\ row.exercise \in tables.exercises \cup {NoContent}
  /\ OrderIsFree(row.course, row.order, {id})

\* POST /api/academy/course-items/ by staff, for the course of the requests:
\* a row with a fresh id
CreateCourseItem ==
  /\ call.edits < MaxEdits
  /\ served + call.edits < MaxTogether
  /\ call.writes < MaxWrites
  /\ call.created < NumItems + MaxCreated
  /\ \E row \in ItemInputs(NoCourseItem, FALSE) :
       /\ row.course = "this"
       /\ RowFits(row, NoItem)
       /\ items' = [j \in DOMAIN items \cup {call.created + 1} |->
                      IF j \in DOMAIN items THEN items[j] ELSE row]
  /\ call' = [call EXCEPT !.created = @ + 1, !.edits = @ + 1, !.writes = @ + 1]
  /\ UNCHANGED <<ups, ucp, tables, today, req, served>>

\* PUT and PATCH /api/academy/course-items/{id}/ by staff, the request
\* arrives: get_object loads the row
UpdateCourseItem ==
  /\ OneWorker
  /\ call.edits < MaxEdits
  /\ served + call.edits < MaxTogether
  /\ call.writes < MaxWrites
  /\ call.update = NoUpdate
  /\ \E i \in DOMAIN items :
       call' = [call EXCEPT !.edits = @ + 1, !.writes = @ + 1,
                            !.update = [id |-> i, instance |-> items[i]]]
  /\ UNCHANGED <<ups, ucp, items, tables, today, req, served>>

\* the update validates the data and saves the instance with them:
\* instance.save() issues an UPDATE of the row and, when the row was deleted
\* since get_object so that the UPDATE matches nothing, an INSERT under the
\* same primary key.  The rows of the item in completed_items and
\* current_item stay as they are.  Data the serializer or the table refuse
\* leave the table as it is
UpdateCourseItemSave ==
  /\ call.update # NoUpdate
  /\ \E partial \in BOOLEAN :
       \E row \in ItemInputs(call.update.instance, partial) :
         items' = IF RowFits(row, call.update.id)
                  THEN [j \in DOMAIN items \cup {call.update.id} |->
                          IF j = call.update.id THEN row ELSE items[j]]
                  ELSE items
  /\ call' = [call EXCEPT !.update = NoUpdate]
  /\ UNCHANGED <<ups, ucp, tables, today, req, served>>

\* the table of CourseItem without the rows `gone`
ItemsWithout(gone) == [j \in DOMAIN items \ gone |-> items[j]]

\* the progress row once the CourseItem rows `gone` are deleted: their rows
\* in completed_items go with them; current_item is SET_NULL
ProgressWithout(gone) ==
  IF ucp = NoCourseProgress THEN ucp
  ELSE [ucp EXCEPT !.completed_items = @ \ gone,
                   !.current_item = IF @ \in gone THEN NoItem ELSE @]

\* the CourseItem rows `gone` are deleted
DeleteItems(gone) ==
  /\ items' = ItemsWithout(gone)
  /\ ucp' = ProgressWithout(gone)

\* the Course rows `gone` are deleted, and with them (CASCADE) their
\* CourseItem rows and, for the course of the requests, the
\* UserCourseProgress row with its completed_items
DeleteCourses(gone) ==
  /\ tables' = [tables EXCEPT !.course = @ /\ "this" \notin gone,
                              !.others = @ /\ "other" \notin gone]
  /\ items' = ItemsWithout({j \in DOMAIN items : items[j].course \in gone})
  /\ ucp' = IF "this" \in gone THEN NoCourseProgress
            ELSE ProgressWithout({j \in DOMAIN items : items[j].course \in gone})

\* the UserProgress rows with their completed_videos and completed_exercises
\* rows of the videos and exercises `videos` and `exercises` deleted
RowsWithout(videos, exercises) ==
  IF ups = <<>> THEN ups
  ELSE [i \in 1..Len(ups) |-> [ups[i] EXCEPT !.completed_videos = @ \ videos,
                                             !.completed_exercises = @ \ exercises]]

\* the AcademyVideo rows `gone` are deleted, and with them (CASCADE) the
\* CourseItem rows whose video they are and their rows in completed_videos
DeleteVideos(gone) ==
  /\ tables' = [tables EXCEPT !.videos = @ \ gone]
  /\ DeleteItems({j \in DOMAIN items : items[j].video \in gone})
  /\ ups' = RowsWithout(gone, {})

\* the AcademyExercise rows `gone` are deleted, and with them (CASCADE) the
\* CourseItem rows whose exercise they are and their rows in
\* completed_exercises
DeleteExercises(gone) ==
  /\ tables' = [tables EXCEPT !.exercises = @ \ gone]
  /\ DeleteItems({j \in DOMAIN items : items[j].exercise \in gone})
  /\ ups' = RowsWithout({}, gone)

\* DELETE /api/academy/course-items/{id}/ by staff
DestroyCourseItem ==
  /\ call.edits < MaxEdits
  /\ served + call.edits < MaxTogether
  /\ \E i \in DOMAIN items : DeleteItems({i})
  /\ call' = [call EXCEPT !.edits = @ + 1]
  /\ UNCHANGED <<ups, tables, today, req, served>>

\* DELETE /api/academy/courses/{id}/ by staff
DestroyCourse ==
  /\ OneWorker
  /\ call.edits < MaxEdits
  /\ served + call.edits < MaxTogether
  /\ \E course \in Courses : DeleteCourses({course})
  /\ call' = [call EXCEPT !.edits = @ + 1]
  /\ UNCHANGED <<ups, today, req, served>>

\* DELETE /api/academy/videos/{id}/ by staff
DestroyVideo ==
  /\ OneWorker
  /\ call.edits < MaxEdits
  /\ served + call.edits < MaxTogether
  /\ \E v \in tables.videos : DeleteVideos({v})
  /\ call' = [call EXCEPT !.edits = @ + 1]
  /\ UNCHANGED <<today, req, served>>

\* DELETE /api/academy/exercises/{id}/ by staff
DestroyExercise ==
  /\ OneWorker
  /\ call.edits < MaxEdits
  /\ served + call.edits < MaxTogether
  /\ \E e \in tables.exercises : DeleteExercises({e})
  /\ call' = [call EXCEPT !.edits = @ + 1]
  /\ UNCHANGED <<today, req, served>>

\* the tables reset_and_create_courses and rebuild_with_working_tools empty,
\* in the order of their delete() statements
ResetTables ==
  <<"UserCourseProgress", "UserProgress", "CourseItem", "Course", "AcademyExercise",
    "AcademyVideo">>

\* the tables populate_academy empties, in the order of its delete()
\* statements
PopulateTables == <<"CourseItem", "Course", "AcademyVideo", "AcademyExercise">>

\* python manage.py reset_and_create_courses, rebuild_with_working_tools or
\* populate_academy is started: it will empty its tables and then create
\* courses
RunCommand ==
  /\ OneWorker
  /\ call.edits < MaxEdits
  /\ served + call.edits < MaxTogether
  /\ call.command = <<>>
  /\ \E emptied \in {ResetTables, PopulateTables} :
       call' = [call EXCEPT !.edits = @ + 1, !.command = Append(emptied, "create")]
  /\ UNCHANGED <<ups, ucp, items, tables, today, req, served>>

\* the next statement of the command: Model.objects.all().delete() on one
\* table, with the cascades of its rows; at the end the command creates
\* videos, exercises, courses and items, all under new primary keys, so that
\* of the rows the requests name none comes back and other courses exist
\* again
CommandStep ==
  /\ call.command # <<>>
  /\ call' = [call EXCEPT !.command = Tail(@)]
  /\ LET table == Head(call.command)
     IN CASE table = "UserCourseProgress" ->
               ucp' = NoCourseProgress /\ UNCHANGED <<ups, items, tables>>
          [] table = "UserProgress" ->
               /\ ups' = IF ups = <<>> THEN ups
                         ELSE [i \in 1..Len(ups) |-> DeletedUserProgress]
               /\ UNCHANGED <<ucp, items, tables>>
          [] table = "CourseItem" -> DeleteItems(DOMAIN items) /\ UNCHANGED <<ups, tables>>
          [] table = "Course" -> DeleteCourses({"this", "other"}) /\ UNCHANGED ups
          [] table = "AcademyExercise" -> DeleteExercises(tables.exercises)
          [] table = "AcademyVideo" -> DeleteVideos(tables.videos)
          [] table = "create" ->
               tables' = [tables EXCEPT !.others = TRUE] /\ UNCHANGED <<ups, ucp, items>>
  /\ UNCHANGED <<today, req, served>>

\* the steps of start and complete_item
CourseStep(r) ==
  \/ /\ r = "r1" \/ ~OneWorker
     /\ served + call.edits < MaxTogether
     /\ Start(r, {"start", "complete_item"})
  \/ GetUserProgress(r)
  \/ CreateUserProgress(r)
  \/ CourseItemLookup(r)
  \/ CourseGetProgress(r)
  \/ CourseCheck(r)
  \/ CourseAdd(r)
  \/ CourseAddXp(r)
  \/ CourseCheckStreak(r)
  \/ CourseTotal(r)
  \/ CourseTotalCount(r)
  \/ CourseCount(r)
  \/ CourseSave(r)
  \/ CourseNext(r)
  \/ CourseNextItem(r)
  \/ CourseSaveNext(r)
  \/ StartGetProgress(r)
  \/ StartFirst(r)
  \/ StartSave(r)
  \/ Finish(r)

NextCourse ==
  \/ \E r \in Reqs : CourseStep(r)
  \/ CreateCourseItem
  \/ UpdateCourseItem
  \/ UpdateCourseItemSave
  \/ DestroyCourseItem
  \/ DestroyCourse
  \/ DestroyVideo
  \/ DestroyExercise
  \/ RunCommand
  \/ CommandStep

SpecCourse == InitCourse /\ [][NextCourse]_vars

(***************************************************************************)
(* Properties.                                                             *)
(***************************************************************************)
Rows == 1..Len(ups)

\* request r takes a step
Moves(r) == req'[r] # req[r]

\* request r answers in this step
Answers(r) == req[r].pc # "done" /\ req'[r].pc = "done"

\* the level the threshold table gives for an XP total: the highest n whose
\* threshold is met
LevelOf(x) ==
  CHOOSE n \in 1..Len(level_thresholds) :
    /\ level_thresholds[n] <= x
    /\ \A m \in 1..Len(level_thresholds) : level_thresholds[m] <= x => m <= n

\* C1: requests processed one at a time.  A submit that finds its exercise
\* already completed answers already_completed=true, points=0, the stored
\* total, and changes no row.  A submit that finds it not completed records
\* the points of the difficulty exactly when its verdict is correct: the
\* exercise enters the completed set and the total grows by those points in
\* the saving step; no other step of a submit changes the total.
C1_AwardedOnce ==
  [][\A r \in Reqs :
       LET q == req[r]
           e == q.target
       IN (q.op = "submit" /\ Moves(r) /\ q.row # NoRow /\ q.pc # "done") =>
            LET before == ups[q.row]
                after == ups'[q.row]
                completed == e \in before.completed_exercises
                points == PointsMap(ExDifficulty(e))
            IN /\ (q.pc = "sub_judged" /\ completed) =>
                    /\ Answers(r)
                    /\ req'[r].resp.already_completed
                    /\ req'[r].resp.points = 0
                    /\ req'[r].resp.total_points = before.total_points
                    /\ ups' = ups
               /\ (q.pc = "sub_judged" /\ ~completed /\ q.verdict.is_correct) =>
                    /\ req'[r].pc = "sub_add"
                    /\ ups' = ups
               /\ (q.pc = "sub_judged" /\ ~completed /\ ~q.verdict.is_correct) =>
                    /\ Answers(r)
                    /\ ~req'[r].resp.already_completed
                    /\ req'[r].resp.points = NoPoints
                    /\ ups' = ups
               /\ q.pc = "sub_save" =>
                    /\ Answers(r)
                    /\ req'[r].resp.points = points
                    /\ after.total_points = before.total_points + points
                    /\ req'[r].resp.total_points = after.total_points
                    /\ e \in after.completed_exercises
               /\ q.pc # "sub_save" => after.total_points = before.total_points]_vars

\* C1 witness: a repeated correct submission has been answered, and the row
\* holds the points of the exercise once
C1_Witness ==
  \E r \in Reqs :
    /\ req[r].pc = "done" /\ req[r].op = "submit"
    /\ req[r].resp.message = "already_completed_correct"
    /\ req[r].resp.already_completed /\ req[r].resp.points = 0
    /\ Len(ups) = 1
    /\ ups[1].completed_exercises = {req[r].target}
    /\ ups[1].total_points = PointsMap(ExDifficulty(req[r].target))

\* the award a step of request r grants, as [xp, points]
AwardOf(q) ==
  CASE q.pc = "sub_save" -> [xp |-> 0, points |-> PointsMap(ExDifficulty(q.target))]
    [] q.pc = "mc_save" -> [xp |-> 0, points |-> VideoPoints]
    [] q.pc = "ci_addxp" -> [xp |-> ItemXp(q.item.content_type),
                             points |-> ItemXp(q.item.content_type)]
    [] OTHER -> [xp |-> 0, points |-> 0]

\* C2 (as claimed): under any interleaving no update is lost.  Every step
\* changes the stored xp and total_points of a row by exactly the award the
\* step grants on that row (nothing, for a step that grants none), so that
\* once all requests have finished the counters are the initial values plus
\* the sum of the awards granted.
C2_NoLostUpdate ==
  [][\A r \in Reqs : Moves(r) =>
       \A i \in Rows :
         LET a == IF i = req[r].row THEN AwardOf(req[r]) ELSE [xp |-> 0, points |-> 0]
         IN /\ ups'[i].xp = ups[i].xp + a.xp
            /\ ups'[i].total_points = ups[i].total_points + a.points]_vars

\* C3 (as claimed): under any interleaving the stored XP of a row is
\* non-negative and never lower than in the state before.
C3_XpNeverDecreases ==
  [][\A i \in Rows : ups'[i].xp >= ups[i].xp /\ ups'[i].xp >= 0]_vars

\* C4 (as claimed): in every reachable state the stored level of a row is
\* the highest level whose threshold the stored XP meets, and the stored
\* level of a row is never lower than in the state before.
C4_LevelFollowsXp ==
  /\ [](\A i \in Rows : ups[i].level = LevelOf(ups[i].xp))
  /\ [][\A i \in Rows : ups'[i].level >= ups[i].level]_vars

\* the validation of request r has returned
Judged(r) == req[r].op = "submit" /\ req[r].pc = "sub_judged"

\* C5 (as claimed): whenever the sandbox reported status 6 the validation
\* rejects with the compile-error verdict and calls neither the AI grader
\* nor a heuristic validator, and the request goes on to award nothing.
C5_CompileErrorRejected ==
  [][\A r \in Reqs :
       (Judged(r) /\ req[r].verdict.res.status_id = 6 /\ Moves(r)) =>
          /\ ~req[r].verdict.is_correct
          /\ req[r].verdict.stage = "compile_error"
          /\ ~req[r].verdict.ai_called
          /\ ~req[r].verdict.heur_called
          /\ req'[r].pc = "done"
          /\ ups' = ups]_vars

\* the sandbox reported a runtime error (status 7 to 14): the run failed,
\* stderr has text and there is no compile output
RuntimeError(res) ==
  /\ res.kind = "result" /\ res.status_id \in 7..14
  /\ ~res.success /\ Truthy(res.stderr) /\ ~Truthy(res.compile_output)

\* C6 (as claimed): for an exercise in a language other than the browser
\* ones, a runtime error reported by the sandbox is terminal: rejected at the
\* Execute stage, neither the AI grader nor a heuristic validator is called.
C6_RuntimeErrorTerminal ==
  \A r \in Reqs :
    (Judged(r) /\ ExLanguage(req[r].target) \notin BrowserLanguages
               /\ RuntimeError(req[r].verdict.res)) =>
       /\ ~req[r].verdict.is_correct
       /\ req[r].verdict.stage = "runtime_error"
       /\ ~req[r].verdict.ai_called
       /\ ~req[r].verdict.heur_called

\* C7: an exercise in a row's completed set is still in it after every step,
\* whatever a later submit is answered.
C7_CompletionLatch ==
  [][\A i \in Rows : ups[i].completed_exercises \subseteq ups'[i].completed_exercises]_vars

\* C7 witness: a submit on a completed exercise was rejected with a compile
\* error and is about to answer; the exercise is still completed
C7_Witness ==
  \E r \in Reqs :
    /\ Judged(r) /\ req[r].already
    /\ req[r].verdict.stage = "compile_error"
    /\ req[r].target \in ups[req[r].row].completed_exercises

\* C8 (as claimed): every submit answer for an incorrect verdict has
\* success=false and carries a hint or a feedback, also when the exercise was
\* already completed.
C8_IncorrectIsFailure ==
  [][\A r \in Reqs :
       (Judged(r) /\ ~req[r].verdict.is_correct /\ Answers(r)) =>
          /\ req'[r].resp.success = "false"
          /\ (req'[r].resp.hint # Absent \/ req'[r].resp.feedback # Absent)]_vars

\* C8 (amended): every submit answer for an incorrect verdict carries the
\* hint and the feedback; it has success=false when the exercise was not yet
\* completed, and success=true with already_completed and
\* current_answer_incorrect set when it was.
C8_IncorrectAnswer ==
  [][\A r \in Reqs :
       (Judged(r) /\ ~req[r].verdict.is_correct /\ Moves(r)) =>
          /\ Answers(r)
          /\ req'[r].resp.status = 200
          /\ req'[r].resp.hint # Absent
          /\ req'[r].resp.feedback # Absent
          /\ IF req[r].target \in ups[req[r].row].completed_exercises
             THEN /\ req'[r].resp.success = "true"
                  /\ req'[r].resp.already_completed
                  /\ req'[r].resp.current_answer_incorrect
             ELSE /\ req'[r].resp.success = "false"
                  /\ ~req'[r].resp.already_completed
                  /\ ~req'[r].resp.current_answer_incorrect]_vars

\* C8 witness: an incorrect answer to a completed exercise has been reported
\* as a success that flags the current answer
C8_Witness ==
  \E r \in Reqs :
    /\ req[r].pc = "done" /\ req[r].op = "submit"
    /\ req[r].resp.success = "true"
    /\ req[r].resp.current_answer_incorrect
    /\ req[r].resp.hint # Absent
    /\ req[r].target \in ups[1].completed_exercises

\* C9 (as claimed): the step that records a first-time correct submission
\* leaves the exercise in the completed set, adds the points of the
\* difficulty to the XP counter and sets the level from the new XP.
C9_FirstCorrectAddsXp ==
  [][\A r \in Reqs :
       (req[r].op = "submit" /\ req[r].pc = "sub_save" /\ Moves(r)) =>
          LET i == req[r].row
          IN /\ req[r].target \in ups'[i].completed_exercises
             /\ ups'[i].xp = ups[i].xp + PointsMap(ExDifficulty(req[r].target))
             /\ ups'[i].level = LevelOf(ups'[i].xp)]_vars

\* C10 (as claimed): mark_completed on a video not yet completed adds the
\* video and 10 XP; on a completed video it changes no row.
C10_VideoAddsXp ==
  [][\A r \in Reqs :
       LET q == req[r]
       IN /\ (q.op = "mark_completed" /\ q.pc = "mc_save" /\ Moves(r)) =>
               /\ q.target \in ups'[q.row].completed_videos
               /\ ups'[q.row].xp = ups[q.row].xp + 10
          /\ (q.op = "mark_completed" /\ q.pc = "mc_check" /\ Moves(r)
                /\ q.target \in ups[q.row].completed_videos) =>
               /\ Answers(r)
               /\ ups' = ups]_vars

\* C11: requests processed one at a time.  complete_item on an item already
\* in completed_items goes straight to the recalculation and changes neither
\* completed_items nor the XP, total points or level of any row.  On an item
\* not yet completed it adds the item and then, in its add_xp step, adds 10 XP
\* (video item) or 50 XP (exercise item) to XP and total points and sets the
\* level from the new XP.  No other step of a complete_item changes these.
C11_ItemXpOnce ==
  [][\A r \in Reqs :
       LET q == req[r]
           t == q.target
           amount == IF q.item.content_type = "video" THEN 10 ELSE 50
       IN (q.op = "complete_item" /\ Moves(r) /\ q.pc # "done") =>
            /\ q.pc = "ci_check" =>
                 /\ ups' = ups /\ ucp' = ucp
                 /\ IF t \in ucp.completed_items
                    THEN req'[r].pc = "ci_total" /\ req'[r].row = NoRow
                    ELSE req'[r].pc = "ci_add"
            /\ q.pc = "ci_add" =>
                 /\ t \notin ucp.completed_items
                 /\ ucp'.completed_items = ucp.completed_items \cup {t}
            /\ q.pc # "ci_add" => ucp'.completed_items = ucp.completed_items
            /\ q.pc = "ci_addxp" =>
                 /\ t \in ucp.completed_items
                 /\ ups'[q.row].xp = ups[q.row].xp + amount
                 /\ ups'[q.row].total_points = ups[q.row].total_points + amount
                 /\ ups'[q.row].level = LevelOf(ups'[q.row].xp)
            /\ q.pc # "ci_addxp" =>
                 \A i \in Rows : /\ ups'[i].xp = ups[i].xp
                                 /\ ups'[i].total_points = ups[i].total_points
                                 /\ ups'[i].level = ups[i].level
            /\ q.pc \in {"ci_total", "ci_items", "ci_count", "ci_save", "ci_next",
                        "ci_nextitem", "ci_savenext"}
                 /\ q.row = NoRow => ups' = ups]_vars

\* C11 witness: a complete_item on a completed item has skipped the award and
\* recalculated; the row holds the XP of that item once
C11_Witness ==
  \E r \in Reqs :
    /\ req[r].op = "complete_item" /\ req[r].pc = "ci_next" /\ req[r].row = NoRow
    /\ req[r].target \in ucp.completed_items
    /\ Len(ups) = 1
    /\ ups[1].xp = ItemXp(items[req[r].target].content_type)
    /\ ups[1].total_points = ups[1].xp

\* C12 (as claimed): completed_at changes only in the save of a
\* calculate_progress that finds the percentage at 100 on a record not yet
\* completed, which sets is_completed and stores the time stamped by that
\* calculate_progress; every calculate_progress that reaches 100 leaves the
\* record completed; once is_completed is true it stays true and
\* completed_at keeps its value, whatever complete_item requests follow.
C12_CompletedAtOnce ==
  [][/\ ucp.is_completed => (ucp'.is_completed /\ ucp'.completed_at = ucp.completed_at)
     /\ (ucp'.completed_at # ucp.completed_at \/ ucp'.is_completed # ucp.is_completed) =>
          /\ \E r \in Reqs : req[r].pc = "ci_save" /\ Moves(r)
          /\ ~ucp.is_completed /\ ucp.completed_at = NoDate
          /\ ucp'.is_completed
          /\ ucp'.completion_percentage = 100
          /\ ucp'.completed_at # NoDate /\ ucp'.completed_at <= today
          /\ \E r \in Reqs : Moves(r) /\ ucp'.completed_at = req[r].cmem.completed_at
     /\ \A r \in Reqs :
          (req[r].pc = "ci_save" /\ Moves(r) /\ ucp'.completion_percentage = 100) =>
             (ucp'.is_completed /\ ucp'.completed_at # NoDate)]_vars

\* C14 (as claimed): the last step of complete_item, on an item with a
\* successor, stores the successor (the item of smallest order above it) as
\* current_item; on an item without successor the stored record is completed
\* at 100 percent, as the response says.
C14_NextOrCompleted ==
  [][\A r \in Reqs :
       LET q == req[r]
           later == {j \in DOMAIN items : items[j].order > q.item.order}
       IN (q.op = "complete_item" /\ q.pc \in {"ci_next", "ci_nextitem", "ci_savenext"}
             /\ Answers(r)) =>
            /\ IF later # {}
               THEN /\ ucp'.current_item \in later
                    /\ \A j \in later : items[ucp'.current_item].order <= items[j].order
               ELSE /\ req'[r].resp.points = 100
                    /\ req'[r].resp.already_completed
                    /\ ucp'.is_completed
                    /\ ucp'.completion_percentage = 100]_vars

\* C16: a submission whose code is null, empty, or shorter than 5 characters
\* once trimmed is judged too short: the verdict is incorrect, no execution
\* result exists, neither the AI grader nor a heuristic validator was called,
\* and the request answers at once without writing any row.
C16_TooShortRejected ==
  [][\A r \in Reqs :
       LET c == req[r].code
       IN (Judged(r) /\ Moves(r) /\ (~c.present \/ c.len = 0 \/ c.stripped < 5)) =>
            /\ ~req[r].verdict.is_correct
            /\ req[r].verdict.stage = "too_short"
            /\ req[r].verdict.res = NoResult
            /\ ~req[r].verdict.ai_called
            /\ ~req[r].verdict.heur_called
            /\ Answers(r)
            /\ ups' = ups]_vars

\* C16 witness: a code of seven characters, four once trimmed, was judged too
\* short on an exercise the user has not completed
C16_Witness ==
  \E r \in Reqs :
    /\ Judged(r) /\ ~req[r].already
    /\ req[r].code.len >= 5 /\ req[r].code.stripped = 4
    /\ req[r].verdict.stage = "too_short"

\* C13 (as claimed): after calculate_progress on a course of total > 0 items
\* of which completed <= total are completed, completion_percentage is
\* floor(100 * completed / total), within 0..100; on a course without items
\* it is 0.
C13_PercentIsFloor ==
  (call.fn = "calculate_progress" /\ req["r1"].pc = "ci_next") =>
    LET pct == ucp.completion_percentage
    IN /\ pct \in 0..100
       /\ pct = IF call.total = 0 THEN 0 ELSE (100 * call.completed) \div call.total

\* C15: after check_streak on day `day`, with d = day - last_activity_date
\* of the row before the call: no last_activity_date gives streak_days 1,
\* d = 1 gives streak_days + 1, d > 1 gives 1, d = 0 leaves streak_days as
\* it was; last_activity_date is the day of the call in every case.
C15_CheckStreak ==
  call.returned =>
    LET b == call.before
        a == ups[1]
        d == call.day - b.last_activity_date
    IN /\ a.last_activity_date = call.day
       /\ b.last_activity_date = NoDate => a.streak_days = 1
       /\ (b.last_activity_date # NoDate /\ d = 1) => a.streak_days = b.streak_days + 1
       /\ (b.last_activity_date # NoDate /\ d > 1) => a.streak_days = 1
       /\ (b.last_activity_date # NoDate /\ d = 0) => a.streak_days = b.streak_days

\* C15 witness: a streak that was carried on to the next day, then a second
\* call on that day, which left it as it was
C15_Witness ==
  /\ call.returned
  /\ call.before.last_activity_date = call.day
  /\ call.day > 0
  /\ call.before.streak_days = MaxStreak + 1
  /\ ups[1].streak_days = MaxStreak + 1
  /\ ups[1].last_activity_date = call.day

\* C17: execute_code with a language tag outside LANGUAGE_IDS returns
\* success=false with the unsupported-language message and has issued no
\* HTTP request, neither the POST nor a poll.
C17_UnsupportedLanguage ==
  (call.returned /\ call.language \notin {"python", "javascript", "java", "cpp", "c", "sql",
                                           "html", "typescript"}) =>
     /\ ~call.out.result.success
     /\ call.out.result.kind = "unsupported_language"
     /\ call.out.posts = 0
     /\ call.out.gets = 0

\* C17 witness: the tag 'other' was refused although the sandbox would have
\* handed out a token
C17_Witness ==
  /\ call.returned /\ call.language = "other" /\ call.sb.submit = "token"
  /\ call.out.result.kind = "unsupported_language" /\ call.out.posts = 0

\* C18: once a token is obtained, at most max_attempts (10) polls are
\* issued.  If the first reply that is not in-progress, non-200 or a request
\* error is a finished run within the budget, the formatted result of that
\* run is returned and that poll was the last; if the first 10 replies are
\* all in-progress, non-200 or request errors, the timeout result, with
\* success=false, is returned after exactly 10 polls.
C18_PollingTerminates ==
  (call.returned /\ LANGUAGE_IDS(call.language) # 0 /\ call.sb.submit = "token") =>
     LET polls == call.sb.polls
         n == Len(polls)
         retried(k) == \A j \in 1..k : polls[j] \in {"inprogress", "non200", "reqerror"}
     IN /\ call.out.posts = 1
        /\ call.out.gets <= 10
        /\ (n < 10 /\ retried(n)) =>
              /\ call.out.result = FormatResult(call.sb.raw)
              /\ call.out.gets = n + 1
        /\ (n >= 10 /\ retried(10)) =>
              /\ call.out.result.kind = "timeout"
              /\ ~call.out.result.success
              /\ call.out.gets = 10

\* C18 witness: ten polls answered by a non-200 reply, a request error and
\* in-progress replies ended in the timeout result
C18_Witness ==
  /\ call.returned /\ call.out.result.kind = "timeout" /\ call.out.gets = 10
  /\ Len(call.sb.polls) > 10
  /\ call.sb.polls[1] = "non200" /\ call.sb.polls[2] = "reqerror"

\* C19 (as claimed): whatever the sandbox does, the object execute_code
\* returns carries success and the three outputs stdout, stderr and
\* compile_output as strings, null or missing outputs being empty strings.
C19_WellFormedResult ==
  call.returned =>
    /\ call.out.result.success \in BOOLEAN
    /\ \A out \in {call.out.result.stdout, call.out.result.stderr,
                     call.out.result.compile_output} : out \notin {Absent, "null"}

\* C20 (as claimed): a submission identical to the reference solution of the
\* exercise is accepted by the heuristic validator, in every language.
C20_ReferenceAccepted ==
  (call.returned /\ call.code = call.solution) => call.out.is_correct

\* a loop statement of the program text: a line that opens with for or while
LoopConstruct(code) ==
  LET lines == SplitLines(code)
      opens(l, kw) == Len(l) >= Len(kw) /\ SubSeq(l, 1, Len(kw)) = kw
  IN \E i \in 1..Len(lines) :
       \E kw \in {"for ", "for(", "while ", "while("} : opens(Strip(lines[i]), kw)

\* the languages whose validator derives a loop requirement from the
\* reference solution, and the comment prefix their line count skips
LoopLanguages == {"python", "javascript", "java", "cpp", "c"}

CommentPrefix(language) == IF language = "python" THEN "#" ELSE "//"

\* the case of the claim: a reference with a loop, a submission of exactly two
\* code lines without one
TwoLinesNoLoop ==
  /\ call.returned
  /\ call.language \in LoopLanguages
  /\ LoopConstruct(call.solution)
  /\ CodeLines(call.code, CommentPrefix(call.language)) = 2
  /\ ~LoopConstruct(call.code)

\* C21 (as claimed): a two-line submission without a loop, for a reference
\* that uses one, is rejected and the hint names the missing loop (the hint
\* that goes with the message "need_loop").
C21_LoopRequired ==
  TwoLinesNoLoop => (~call.out.is_correct /\ call.out.message = "need_loop")

\* C22 (as claimed): a submission for a language without executor mapping
\* ends in the UnsupportedLanguage failure: it is rejected at the Execute
\* stage, and neither the AI grader nor a heuristic validator gives a verdict.
C22_UnsupportedIsTerminal ==
  (call.returned /\ LANGUAGE_IDS(call.language) = 0 /\ ~TooShort(call.code))
    => /\ ~call.out.is_correct
       /\ call.out.stage \notin {"ai", "heuristic"}
       /\ ~call.out.ai_called
       /\ ~call.out.heur_called

\* C24: past preflight and the Execute stage, the verdict comes from exactly
\* one stage: from the AI grader when the oracle is available and the stage
\* completes, and then no heuristic validator is invoked; from the heuristic
\* validator when the AI stage was skipped or raised.
C24_OneStageDecides ==
  (call.returned /\ call.out.stage \notin {"too_short", "runtime_error", "compile_error"})
    => \/ /\ call.aiAvail /\ ~call.ai.raises
          /\ call.out.stage = "ai"
          /\ call.out.is_correct = call.ai.is_correct
          /\ call.out.ai_called /\ ~call.out.heur_called
       \/ /\ ~call.aiAvail \/ call.ai.raises
          /\ call.out.stage = "heuristic"
          /\ call.out.is_correct = call.heur.is_correct
          /\ call.out.heur_called /\ call.out.ai_called = call.aiAvail

\* the AI grader rejects and no heuristic validator is asked; the AI stage
\* raises and the heuristic validator accepts
C24_Witness ==
  /\ call.returned
  /\ call.out.stage = "ai" /\ ~call.out.is_correct /\ call.heur.is_correct
  /\ ~call.out.heur_called

\* C23 (as claimed): the user has at most one UserProgress row in every
\* reachable state, concurrent first requests included, and no request that
\* looks the user's progress up fails to obtain it.
C23_OneUserProgress ==
  /\ Len(ups) <= 1
  /\ \A r \in Reqs : req[r].resp.message # "MultipleObjectsReturned"

\* C28 (as claimed): under any interleaving, a request that has found its
\* target not yet completed records and rewards it before any other request
\* does: at the step that adds the target to the completed set, the stored
\* set does not hold it yet.
C28_CheckThenAward ==
  [][\A r \in Reqs :
       LET q == req[r]
       IN Moves(r) =>
            /\ q.pc = "sub_add" => q.target \notin ups[q.row].completed_exercises
            /\ q.pc = "mc_add" => q.target \notin ups[q.row].completed_videos
            /\ q.pc = "ci_add" => q.target \notin ucp.completed_items]_vars

\* the verdict of the local similarity fallback for the codes of the call
Fallback == BasicValidation(call.submitted_code, call.solution_code)

\* C25: evaluate_code returns the verdict of _basic_validation on the
\* submitted and the reference code whenever no credential is configured,
\* and then it has issued no POST request, and whenever requests.post or
\* response.json() raises or the answer has a status outside 200..299; no
\* exception leaves evaluate_code: every call returns one of its dicts.
C25_FallbackOnFailure ==
  call.returned =>
    /\ ~call.available => call.out = Evaluated(Returned(Fallback), 0)
    /\ (call.oracle.post # "response" \/ ~call.oracle.json
          \/ call.oracle.status \notin 200..299)
         => call.out.verdict = Fallback
    /\ call.out.exc = "none"
    /\ call.out.verdict.via \in {"basic", "basic_too_short", "parsed", "salvaged",
                                 "unexpected_structure", "parse_exception"}

\* C25 witness: the credential is configured, requests.post raises a
\* timeout, and the call has returned the fallback's rejection of an
\* unrelated program
C25_Witness ==
  /\ call.returned /\ call.available
  /\ call.oracle.post = "timeout"
  /\ call.out.posts = 1
  /\ call.out.exc = "none"
  /\ call.out.verdict = Fallback
  /\ call.out.verdict.is_correct = PyBool(FALSE)
  /\ call.out.verdict.via = "basic"

\* a 200 answer with a decodable body reached _parse_gemini_response
Parsed == call.returned /\ call.available /\ call.out.verdict.via \notin {"basic", "basic_too_short"}

\* C26 (as claimed): when the reply holds no candidate text, or text in which
\* the client finds no JSON object, the verdict returned is the one
\* _basic_validation gives for the submitted and the reference code.
C26_UnparsableDegrades ==
  (Parsed /\ call.out.verdict.via # "parsed")
    => /\ call.out.verdict.is_correct = Fallback.is_correct
       /\ call.out.verdict.score = Fallback.score

\* the two codes as _basic_validation compares them
Normalized(code) == ToLower(RemoveSpaces(code, 1, Len(code)))

\* C27 (as claimed): the fallback rejects a normalized submission shorter than
\* 10 characters; otherwise it accepts exactly when more than 0.7 of the
\* positions of the longer normalized string agree, and its score is the
\* floor of 100 times that ratio, within 0..100.
C27_SimilarityScore ==
  (call.returned /\ ~call.available)
    => LET submitted == Normalized(call.submitted_code)
           solution == Normalized(call.solution_code)
           common == Cardinality({i \in 1..Len(submitted) :
                                    i <= Len(solution) /\ Char(submitted, i) = Char(solution, i)})
           longer == IF Len(submitted) > Len(solution) THEN Len(submitted) ELSE Len(solution)
           verdict == call.out.verdict
       IN IF Len(submitted) < 10 THEN verdict.is_correct = PyBool(FALSE)
          ELSE /\ verdict.is_correct = PyBool(10 * common > 7 * longer)
               /\ verdict.score = PyInt((100 * common) \div longer)
               /\ (100 * common) \div longer \in 0..100

\* C30 (as claimed): a verdict salvaged from a reply that fails JSON parsing
\* never contradicts the reply: it is not is_correct true when the text states
\* "is_correct": false, and is_correct true requires the text to contain
\* 'correct' and not 'incorrect'.
C30_SalvageAgrees ==
  (Parsed /\ call.out.verdict.via = "salvaged")
    => LET text == ToLower(call.oracle.body.text)
       IN /\ Contains(text, "\"is_correct\": false") => call.out.verdict.is_correct # PyBool(TRUE)
          /\ call.out.verdict.is_correct = PyBool(TRUE)
               => (Contains(text, "correct") /\ ~Contains(text, "incorrect"))

\* C29 (as claimed): in every reachable state of a UserCourseProgress,
\* is_completed is true exactly when completion_percentage is 100, also
\* after staff add items to the course or remove items from it and
\* complete_item is called again.
C29_CompletedIffHundred ==
  ucp # NoCourseProgress => (ucp.is_completed <=> ucp.completion_percentage = 100)

====
